---------------------------- MODULE Spec2Model ----------------------------
(***************************************************************************)
(* Country-name harmonisation of the GWEILP data warehouse ETL:            *)
(* src/data/Normalizer.py and src/data/country_to_regionagg.py.            *)
(*                                                                         *)
(* Python str values are TLA+ strings; a character is a string of length   *)
(* one.  pandas DataFrames are sequences of records (row order is the      *)
(* positional order, the field `label` is the index label where the code   *)
(* depends on it).                                                         *)
(***************************************************************************)
EXTENDS Integers, Sequences, FiniteSets, TLC

(***************************************************************************)
(* Bounds of the model.                                                    *)
(***************************************************************************)
\* number of rows of the reference dataset (wiid)
MaxRows == 2
\* number of rows of a fact source file (ILO csv, ETD csv)
MaxFactRows == 3
\* number of rows of a reference dataset made of the alias targets
MaxAliasRows == 1
\* the longest string of FoldAlphabet that fold is applied to
MaxLen == 3
\* number of calls of smart_match_country the loaders make in turn
MaxCalls == 2

(***************************************************************************)
(* Characters.                                                             *)
(***************************************************************************)
Ch(s, i) == SubSeq(s, i, i)

\* the printable ASCII characters in code point order: U+0020 .. U+005F and
\* U+0061 .. U+007E (U+0060, the grave accent, cannot be written in a TLA+
\* string and is not modelled)
AsciiLo == " !\"#$%&'()*+,-./0123456789:;<=>?@ABCDEFGHIJKLMNOPQRSTUVWXYZ[\\]^_"
AsciiHi == "abcdefghijklmnopqrstuvwxyz{|}~"
AsciiUpper == "ABCDEFGHIJKLMNOPQRSTUVWXYZ"
AsciiLower == "abcdefghijklmnopqrstuvwxyz"
AsciiDigits == "0123456789"

\* The characters outside printable ASCII that the model knows, with the
\* properties the Python library gives them: code point (ord), str.lower,
\* str.upper, unicodedata.normalize("NFKD", c), unicodedata.combining(c) # 0,
\* whether re's \w matches, whether re's \s (and str.strip) matches.
\* A TLA+ string holds Latin-1 characters only, so four characters beyond
\* U+00FF are written with a stand-in: U+0301 COMBINING ACUTE ACCENT as "¦",
\* U+0302 COMBINING CIRCUMFLEX ACCENT as "¤", U+2019 RIGHT SINGLE QUOTATION
\* MARK as "§", U+2122 TRADE MARK SIGN as "¶"; cp is the real code point.
UnicodeData ==
  <<
     [c |-> "\t", cp |-> 9, lower |-> "\t", upper |-> "\t", nfkd |-> "\t", combining |-> FALSE, word |-> FALSE, space |-> TRUE],
     [c |-> " ", cp |-> 160, lower |-> " ", upper |-> " ", nfkd |-> " ", combining |-> FALSE, word |-> FALSE, space |-> TRUE],
     [c |-> "É", cp |-> 201, lower |-> "é", upper |-> "É", nfkd |-> "E¦", combining |-> FALSE, word |-> TRUE, space |-> FALSE],
     [c |-> "Ô", cp |-> 212, lower |-> "ô", upper |-> "Ô", nfkd |-> "O¤", combining |-> FALSE, word |-> TRUE, space |-> FALSE],
     [c |-> "é", cp |-> 233, lower |-> "é", upper |-> "É", nfkd |-> "e¦", combining |-> FALSE, word |-> TRUE, space |-> FALSE],
     [c |-> "ô", cp |-> 244, lower |-> "ô", upper |-> "Ô", nfkd |-> "o¤", combining |-> FALSE, word |-> TRUE, space |-> FALSE],
     [c |-> "¦", cp |-> 769, lower |-> "¦", upper |-> "¦", nfkd |-> "¦", combining |-> TRUE, word |-> FALSE, space |-> FALSE],
     [c |-> "¤", cp |-> 770, lower |-> "¤", upper |-> "¤", nfkd |-> "¤", combining |-> TRUE, word |-> FALSE, space |-> FALSE],
     [c |-> "§", cp |-> 8217, lower |-> "§", upper |-> "§", nfkd |-> "§", combining |-> FALSE, word |-> FALSE, space |-> FALSE],
     [c |-> "¶", cp |-> 8482, lower |-> "¶", upper |-> "¶", nfkd |-> "TM", combining |-> FALSE, word |-> FALSE, space |-> FALSE] >>

RECURSIVE StrChars(_, _)
\* the set of the characters of s from position i on
StrChars(s, i) == IF i > Len(s) THEN {} ELSE {Ch(s, i)} \cup StrChars(s, i + 1)

RECURSIVE IndexFrom(_, _, _)
\* the first position >= i of character c in s, 0 when there is none
IndexFrom(s, c, i) ==
  IF i > Len(s) THEN 0 ELSE IF Ch(s, i) = c THEN i ELSE IndexFrom(s, c, i + 1)

AsciiSet == StrChars(AsciiLo, 1) \cup StrChars(AsciiHi, 1)
CharsOf(table) == {table[k].c : k \in 1..Len(table)}
UnicodeSet == CharsOf(UnicodeData)
CharSet == AsciiSet \cup UnicodeSet
RowOf(table, c) == table[CHOOSE k \in 1..Len(table) : table[k].c = c]
UnicodeOf(c) == RowOf(UnicodeData, c)

\* ord(c)
CodePoint == [c \in CharSet |-> IF IndexFrom(AsciiLo, c, 1) # 0 THEN 31 + IndexFrom(AsciiLo, c, 1)
                                 ELSE IF IndexFrom(AsciiHi, c, 1) # 0 THEN 96 + IndexFrom(AsciiHi, c, 1)
                                 ELSE UnicodeOf(c).cp]
\* c.lower()
LowerOf == [c \in CharSet |->
             IF c \in AsciiSet
             THEN (IF IndexFrom(AsciiUpper, c, 1) # 0
                   THEN Ch(AsciiLower, IndexFrom(AsciiUpper, c, 1)) ELSE c)
             ELSE UnicodeOf(c).lower]
\* c.upper()
UpperOf == [c \in CharSet |->
             IF c \in AsciiSet
             THEN (IF IndexFrom(AsciiLower, c, 1) # 0
                   THEN Ch(AsciiUpper, IndexFrom(AsciiLower, c, 1)) ELSE c)
             ELSE UnicodeOf(c).upper]
\* unicodedata.normalize("NFKD", c)
NfkdOf == [c \in CharSet |-> IF c \in AsciiSet THEN c ELSE UnicodeOf(c).nfkd]
\* unicodedata.combining(c) # 0
IsCombining == [c \in CharSet |-> IF c \in AsciiSet THEN FALSE ELSE UnicodeOf(c).combining]
\* re: \w matches c (str pattern: Unicode alphanumerics and the underscore)
IsWord == [c \in CharSet |->
            IF c \in AsciiSet
            THEN \/ IndexFrom(AsciiLower, c, 1) # 0
                 \/ IndexFrom(AsciiUpper, c, 1) # 0
                 \/ IndexFrom(AsciiDigits, c, 1) # 0
                 \/ c = "_"
            ELSE UnicodeOf(c).word]
\* re: \s matches c; also the characters str.strip() removes
IsSpace == [c \in CharSet |-> IF c \in AsciiSet THEN c = " " ELSE UnicodeOf(c).space]

(***************************************************************************)
(* Python str operations.                                                  *)
(***************************************************************************)
RECURSIVE StrMap(_, _, _)
\* "".join(f[c] for c in s[i-1:])
StrMap(f, s, i) == IF i > Len(s) THEN "" ELSE f[Ch(s, i)] \o StrMap(f, s, i + 1)

\* s.lower(), s.upper()
StrLower(s) == StrMap(LowerOf, s, 1)
StrUpper(s) == StrMap(UpperOf, s, 1)

RECURSIVE FirstNonSpace(_, _)
FirstNonSpace(s, i) ==
  IF i > Len(s) THEN i ELSE IF IsSpace[Ch(s, i)] THEN FirstNonSpace(s, i + 1) ELSE i
RECURSIVE LastNonSpace(_, _)
LastNonSpace(s, i) ==
  IF i < 1 THEN i ELSE IF IsSpace[Ch(s, i)] THEN LastNonSpace(s, i - 1) ELSE i
\* s.strip()
StrStrip(s) == SubSeq(s, FirstNonSpace(s, 1), LastNonSpace(s, Len(s)))

RECURSIVE StrLess(_, _)
\* a < b on Python str: lexicographic on code points
StrLess(a, b) ==
  IF Len(b) = 0 THEN FALSE
  ELSE IF Len(a) = 0 THEN TRUE
  ELSE IF Ch(a, 1) # Ch(b, 1) THEN CodePoint[Ch(a, 1)] < CodePoint[Ch(b, 1)]
  ELSE StrLess(SubSeq(a, 2, Len(a)), SubSeq(b, 2, Len(b)))

\* s[i-1:].startswith(p)
StartsAt(s, i, p) == i + Len(p) - 1 <= Len(s) /\ SubSeq(s, i, i + Len(p) - 1) = p
\* p in s
Contains(s, p) == \E i \in 1..(Len(s) - Len(p) + 1) : StartsAt(s, i, p)

(***************************************************************************)
(* fold                                                                    *)
(***************************************************************************)
\* np.nan / None in an object column or as an argument
NaN == "<float nan>"
\* Python's None
None == "<None>"
\* pd.NA of a "string" dtype column; str(pd.NA) is "<NA>"
NA == "<NA>"
\* pd.notna(x)
notna(x) == x # NaN /\ x # NA

RECURSIVE DropCombining(_, _)
\* "".join([c for c in s if not unicodedata.combining(c)])
DropCombining(s, i) ==
  IF i > Len(s) THEN ""
  ELSE (IF IsCombining[Ch(s, i)] THEN "" ELSE Ch(s, i)) \o DropCombining(s, i + 1)

RECURSIVE SubNonWord(_, _)
\* re.sub(r"[^\w\s]", " ", s)
SubNonWord(s, i) ==
  IF i > Len(s) THEN ""
  ELSE (IF IsWord[Ch(s, i)] \/ IsSpace[Ch(s, i)] THEN Ch(s, i) ELSE " ")
       \o SubNonWord(s, i + 1)

RECURSIVE CollapseSpace(_, _)
\* re.sub(r"\s+", " ", s)
CollapseSpace(s, i) ==
  IF i > Len(s) THEN ""
  ELSE IF IsSpace[Ch(s, i)]
       THEN " " \o CollapseSpace(s, FirstNonSpace(s, i))
       ELSE Ch(s, i) \o CollapseSpace(s, i + 1)

fold(s) ==
  IF s \in {None, NaN} THEN ""
  ELSE LET s1 == StrLower(StrStrip(s))
           s2 == StrMap(NfkdOf, s1, 1)
           s3 == DropCombining(s2, 1)
           s4 == SubNonWord(s3, 1)
       IN  StrStrip(CollapseSpace(s4, 1))

(***************************************************************************)
(* ALIASES and the exclusion rule.                                         *)
(***************************************************************************)
\* the two scripts of src/data, each with its own ALIASES and lookup builder
Scripts == {"Normalizer", "country_to_regionagg"}

\* Normalizer.py: ALIASES, as <<key, value>> pairs in the dict's insertion order
ALIASES ==
  << <<"cote d ivoire", "cote d'ivoire">>, <<"ivory coast", "cote d'ivoire">>,
     <<"viet nam", "vietnam">>, <<"russian federation", "russia">>,
     <<"bolivia plurinational state of", "bolivia">>,
     <<"bolivia plurinational state", "bolivia">>,
     <<"brunei darussalam", "brunei">>,
     <<"congo democratic republic of the", "democratic republic of the congo">>,
     <<"congo dem rep", "democratic republic of the congo">>,
     <<"congo republic of the", "congo">>,
     <<"iran islamic republic of", "iran">>,
     <<"lao people s democratic republic", "laos">>,
     <<"micronesia federated states of", "micronesia">>,
     <<"moldova republic of", "moldova">>,
     <<"korea republic of", "south korea">>,
     <<"korea democratic people s republic of", "north korea">>,
     <<"syrian arab republic", "syria">>,
     <<"tanzania united republic of", "tanzania">>,
     <<"united states of america", "united states">>,
     <<"eswatini", "swaziland">>, <<"cabo verde", "cape verde">>,
     <<"holy see", "vatican city">>, <<"myanmar", "burma">> >>

\* country_to_regionagg.py: ALIASES
ALIASES_regionagg ==
  << <<"cote d ivoire", "cote d'ivoire">>, <<"ivory coast", "cote d'ivoire">>,
     <<"viet nam", "vietnam">>, <<"russian federation", "russia">>,
     <<"bolivia plurinational state of", "bolivia">>,
     <<"brunei darussalam", "brunei">>,
     <<"congo democratic republic of the", "democratic republic of the congo">>,
     <<"iran islamic republic of", "iran">>,
     <<"lao people s democratic republic", "laos">>,
     <<"micronesia federated states of", "micronesia">>,
     <<"moldova republic of", "moldova">>,
     <<"korea republic of", "south korea">>,
     <<"korea democratic people s republic of", "north korea">>,
     <<"syrian arab republic", "syria">>,
     <<"tanzania united republic of", "tanzania">>,
     <<"united states of america", "united states">>,
     <<"eswatini", "swaziland">>, <<"cabo verde", "cape verde">> >>

\* the ALIASES global of a script
AliasesOf(sc) == IF sc = "Normalizer" THEN ALIASES ELSE ALIASES_regionagg

\* aliases.get(k, d)
AliasGet(aliases, k, d) ==
  IF \E n \in 1..Len(aliases) : aliases[n][1] = k
  THEN aliases[CHOOSE n \in 1..Len(aliases) : aliases[n][1] = k][2]
  ELSE d

\* is_israel without the test of the name
is_israel_iso_only(name, iso3) == notna(iso3) /\ StrUpper(iso3) = "ISR"

is_israel(name, iso3) ==
  LET n == fold(name)
      is_iso_match == notna(iso3) /\ StrUpper(iso3) = "ISR"
  IN  is_iso_match \/ Contains(n, "israel")

(***************************************************************************)
(* DataFrame helpers.                                                      *)
(***************************************************************************)
RECURSIVE SeqFilter(_, _, _)
\* the rows s[i..] that satisfy Keep, in order
SeqFilter(s, Keep(_), i) ==
  IF i > Len(s) THEN <<>>
  ELSE (IF Keep(s[i]) THEN <<s[i]>> ELSE <<>>) \o SeqFilter(s, Keep, i + 1)

RECURSIVE InsertStable(_, _, _, _)
\* r inserted into the sorted rows s before the first row (from i) it precedes
InsertStable(s, r, Before(_, _), i) ==
  IF i > Len(s) THEN Append(s, r)
  ELSE IF Before(r, s[i]) THEN SubSeq(s, 1, i - 1) \o <<r>> \o SubSeq(s, i, Len(s))
  ELSE InsertStable(s, r, Before, i + 1)

RECURSIVE SortStable(_, _, _)
\* the rows s[1..n] in the order Before, rows that compare equal keeping
\* their original relative order
SortStable(s, Before(_, _), n) ==
  IF n = 0 THEN <<>>
  ELSE InsertStable(SortStable(s, Before, n - 1), s[n], Before, 1)

RECURSIVE DropDuplicates(_, _, _)
\* df.drop_duplicates(subset): a row is dropped when an earlier row has the
\* same Key (keep="first")
DropDuplicates(s, Key(_), i) ==
  IF i > Len(s) THEN <<>>
  ELSE (IF \E j \in 1..(i - 1) : Key(s[j]) = Key(s[i]) THEN <<>> ELSE <<s[i]>>)
       \o DropDuplicates(s, Key, i + 1)

\* ordering of one sort key with na_position="last": NaN after every value
StrKeyBefore(a, b) == a # NaN /\ (b = NaN \/ StrLess(a, b))


(***************************************************************************)
(* Dims: the Registry (Dim_Pays) and the lookup table.                     *)
(***************************************************************************)
\* a missing (NaN) year
NoYear == 0

\* wiid.sort_values(["country","year"], ascending=[True, False]): country
\* ascending, then year descending, NaN last in both keys
WiidBefore(r1, r2) ==
  \/ StrKeyBefore(r1.country, r2.country)
  \/ /\ r1.country = r2.country
     /\ r1.year # NoYear
     /\ (r2.year = NoYear \/ r1.year > r2.year)

\* the order of the group keys (country, c3) in a groupby result (sort=True)
GroupKeyBefore(r1, r2) ==
  \/ StrLess(r1.country, r2.country)
  \/ r1.country = r2.country /\ StrLess(r1.c3, r2.c3)

RECURSIVE FirstNotNa(_, _, _)
\* GroupBy.first() of one column: the first non-null value of the group's
\* rows g[i..], NaN when every value is null
FirstNotNa(g, Col(_), i) ==
  IF i > Len(g) THEN NaN
  ELSE IF notna(Col(g[i])) THEN Col(g[i]) ELSE FirstNotNa(g, Col, i + 1)

\* sorted.groupby(["country","c3"], as_index=False).first(): one row per
\* (country, c3) pair without a null key, in key order
GroupOf(keyed, k) == SeqFilter(keyed, LAMBDA r : r.country = k.country /\ r.c3 = k.c3, 1)
FirstOfGroup(keyed, k) ==
  [country   |-> k.country,
   c3        |-> k.c3,
   region_wb |-> FirstNotNa(GroupOf(keyed, k), LAMBDA r : r.region_wb, 1)]
FirstOfGroups(keyed, keys) == [n \in 1..Len(keys) |-> FirstOfGroup(keyed, keys[n])]
SortedKeys(firsts) == SortStable(firsts, GroupKeyBefore, Len(firsts))
GroupsOf(keyed) ==
  FirstOfGroups(keyed, SortedKeys(DropDuplicates(keyed, LAMBDA r : <<r.country, r.c3>>, 1)))
GroupByFirst(sorted) ==
  GroupsOf(SeqFilter(sorted, LAMBDA r : notna(r.country) /\ notna(r.c3), 1))

\* lines 123-125: the columns kept, under their new names
RenameRow(r) == [country_name |-> r.country, iso3 |-> r.c3, region_wb |-> r.region_wb]
Renamed(latest) == [n \in 1..Len(latest) |-> RenameRow(latest[n])]
\* line 127: sort_values("country_name")
SortByName(dim) ==
  SortStable(dim, LAMBDA r1, r2 : StrKeyBefore(r1.country_name, r2.country_name), Len(dim))
\* lines 126-127 without drop_duplicates("iso3")
CleanDim_with_duplicates(dim) ==
  SortByName(
    SeqFilter(SeqFilter(dim, LAMBDA r : ~is_israel(r.country_name, r.iso3), 1),
              LAMBDA r : notna(r.iso3), 1))

\* lines 126-127: the exclusion filter, dropna(subset=["iso3"]),
\* drop_duplicates("iso3"), sort_values("country_name")
CleanDim(dim) ==
  SortByName(
    DropDuplicates(
      SeqFilter(SeqFilter(dim, LAMBDA r : ~is_israel(r.country_name, r.iso3), 1),
                LAMBDA r : notna(r.iso3), 1),
      LAMBDA r : r.iso3, 1))

\* lines 120-121: a column the frame lacks is added to it, in place, filled
\* with NaN (of the columns of the model only "year" can be lacking)
AddMissingColumns(wiid) ==
  [n \in 1..Len(wiid) |->
     IF "year" \in DOMAIN wiid[n] THEN wiid[n]
     ELSE [country |-> wiid[n].country, c3 |-> wiid[n].c3, year |-> NoYear,
           region_wb |-> wiid[n].region_wb]]

\* line 122: latest
LatestOf(wiid) == GroupByFirst(SortStable(wiid, WiidBefore, Len(wiid)))

build_dim_pays_from_wiid(wiid) ==
  CleanDim(Renamed(LatestOf(AddMissingColumns(wiid))))

\* build_dim_pays_from_wiid raises KeyError: when `latest` has no row (no row of
\* wiid has both a country and a c3, or wiid is the empty frame of a missing
\* file), dim.apply(..., axis=1) of line 126 returns an empty float64 Series
\* and not a boolean mask; dim[...] then selects columns, none, and
\* dropna(subset=["iso3"]) of line 127 does not find "iso3"
DimRaises(wiid) == LatestOf(AddMissingColumns(wiid)) = <<>>

\* the alternatives of the qualifier pattern, in the pattern's order
QUALIFIERS == <<"republic", "state", "islamic", "federation", "democratic", "people s">>

\* \b at position i of s: between s[i-1] and s[i] exactly one is a word character
WordAt(s, i) == i >= 1 /\ i <= Len(s) /\ IsWord[Ch(s, i)]
WordBoundary(s, i) == WordAt(s, i - 1) # WordAt(s, i)

\* q matches at position i between two word boundaries
MatchesAt(s, i, q) ==
  /\ WordBoundary(s, i)
  /\ StartsAt(s, i, q)
  /\ WordBoundary(s, i + Len(q))
RECURSIVE FirstQualifier(_, _, _)
\* the length of the first alternative, from the n-th on, that matches at
\* position i; 0 when none does
FirstQualifier(s, i, n) ==
  IF n > Len(QUALIFIERS) THEN 0
  ELSE IF MatchesAt(s, i, QUALIFIERS[n]) THEN Len(QUALIFIERS[n])
  ELSE FirstQualifier(s, i, n + 1)
\* the length of the match of \b(republic|...|people s)\b at position i, 0 for none
QualifierAt(s, i) == FirstQualifier(s, i, 1)

RECURSIVE SubQualifiers(_, _)
\* a match of k characters at position i is removed, another character kept
SubFrom(s, i, k) ==
  IF k > 0 THEN SubQualifiers(s, i + k) ELSE Ch(s, i) \o SubQualifiers(s, i + 1)
\* re.sub(r"\b(republic|state|islamic|federation|democratic|people s)\b", "", s)
SubQualifiers(s, i) ==
  IF i > Len(s) THEN "" ELSE SubFrom(s, i, QualifierAt(s, i))

\* build_country_lookup, lines 135-136: the stripped form of a folded name
StrippedForm(name_fold) == StrStrip(CollapseSpace(SubQualifiers(name_fold, 1), 1))

\* lines 137-138: the row appended for r when its stripped form is base
StrippedRow(r, base) ==
  IF base # "" /\ base # r.name_fold
  THEN <<[iso3 |-> r.iso3, country_name |-> r.country_name, name_fold |-> base]>>
  ELSE <<>>
RECURSIVE StrippedRows(_, _)
\* build_country_lookup, lines 133-138
StrippedRows(lk, i) ==
  IF i > Len(lk) THEN <<>>
  ELSE StrippedRow(lk[i], StrippedForm(lk[i].name_fold)) \o StrippedRows(lk, i + 1)

RECURSIVE AliasRowsOf(_, _, _, _)
\* the inner loop "for k,v in ALIASES.items()" for one Registry row r whose
\* folded name is canon
AliasRowsOf(aliases, r, canon, n) ==
  IF n > Len(aliases) THEN <<>>
  ELSE (IF aliases[n][2] = canon
        THEN <<[iso3 |-> r.iso3, country_name |-> r.country_name,
                name_fold |-> aliases[n][1]]>>
        ELSE <<>>) \o AliasRowsOf(aliases, r, canon, n + 1)

RECURSIVE AliasRows(_, _, _)
\* the loop "for _, r in dim_pays.iterrows()" that collects alias_rows
AliasRows(aliases, dim_pays, i) ==
  IF i > Len(dim_pays) THEN <<>>
  ELSE AliasRowsOf(aliases, dim_pays[i], fold(dim_pays[i].country_name), 1)
       \o AliasRows(aliases, dim_pays, i + 1)

\* the canonical rows with name_fold left unfolded
CanonicalRows_unfolded(dim_pays) ==
  [n \in 1..Len(dim_pays) |->
     [iso3 |-> dim_pays[n].iso3, country_name |-> dim_pays[n].country_name,
      name_fold |-> dim_pays[n].country_name]]

\* lk = dim_pays.copy(); lk["name_fold"] = lk["country_name"].apply(fold)
CanonicalRows(dim_pays) ==
  [n \in 1..Len(dim_pays) |->
     [iso3 |-> dim_pays[n].iso3, country_name |-> dim_pays[n].country_name,
      name_fold |-> fold(dim_pays[n].country_name)]]

\* line 139: lk followed by the stripped rows
WithStripped(lk) == lk \o StrippedRows(lk, 1)

\* Normalizer.py
build_country_lookup(dim_pays) ==
  DropDuplicates(WithStripped(CanonicalRows(dim_pays)) \o AliasRows(ALIASES, dim_pays, 1),
                 LAMBDA r : <<r.name_fold, r.iso3>>, 1)

\* country_to_regionagg.py: no stripped forms, its own ALIASES
build_country_lookup_regionagg(dim_pays) ==
  DropDuplicates(CanonicalRows(dim_pays) \o AliasRows(ALIASES_regionagg, dim_pays, 1),
                 LAMBDA r : <<r.name_fold, r.iso3>>, 1)


(***************************************************************************)
(* difflib.SequenceMatcher and get_close_matches (isjunk=None; autojunk    *)
(* has no effect below 200 characters).  Positions are 1-based and ranges  *)
(* inclusive: Python's a[alo:ahi] is a[alo+1 .. ahi] here.                 *)
(***************************************************************************)
Min(x, y) == IF x <= y THEN x ELSE y

RECURSIVE RunLength(_, _, _, _, _, _)
\* the length of the common run a[i..] = b[j..] within a[..ahi], b[..bhi]
RunLength(a, b, i, j, ahi, bhi) ==
  IF i > ahi \/ j > bhi \/ Ch(a, i) # Ch(b, j) THEN 0
  ELSE 1 + RunLength(a, b, i + 1, j + 1, ahi, bhi)

RECURSIVE BestInRow(_, _, _, _, _, _, _)
\* the best block after the runs that start at (i, j), (i, j+1), .. (i, bhi):
\* a longer run replaces the best one, an equal one does not ("if k >
\* bestsize: besti, bestj, bestsize = ...")
BestInRow(a, b, i, j, ahi, bhi, best) ==
  IF j > bhi THEN best
  ELSE IF RunLength(a, b, i, j, ahi, bhi) > best[3]
       THEN BestInRow(a, b, i, j + 1, ahi, bhi, <<i, j, RunLength(a, b, i, j, ahi, bhi)>>)
       ELSE BestInRow(a, b, i, j + 1, ahi, bhi, best)

RECURSIVE BestFromRow(_, _, _, _, _, _, _)
\* the best block after the rows i, i+1, .. ahi
BestFromRow(a, b, i, ahi, blo, bhi, best) ==
  IF i > ahi THEN best
  ELSE BestFromRow(a, b, i + 1, ahi, blo, bhi,
                   BestInRow(a, b, i, blo, ahi, bhi, best))

\* SequenceMatcher.find_longest_match(alo, ahi, blo, bhi): <<i, j, k>> with
\* a[i..i+k-1] = b[j..j+k-1], k maximal, then i minimal, then j minimal
find_longest_match(a, b, alo, ahi, blo, bhi) ==
  BestFromRow(a, b, alo, ahi, blo, bhi, <<alo, blo, 0>>)

RECURSIVE MatchedChars(_, _, _, _, _, _)
\* the match m and the matches found to its left and to its right
MatchedAround(a, b, alo, ahi, blo, bhi, m) ==
  IF m[3] = 0 THEN 0
  ELSE m[3] + MatchedChars(a, b, alo, m[1] - 1, blo, m[2] - 1)
            + MatchedChars(a, b, m[1] + m[3], ahi, m[2] + m[3], bhi)
\* the sum of the sizes of get_matching_blocks() within the two ranges
MatchedChars(a, b, alo, ahi, blo, bhi) ==
  IF alo > ahi \/ blo > bhi THEN 0
  ELSE MatchedAround(a, b, alo, ahi, blo, bhi,
                     find_longest_match(a, b, alo, ahi, blo, bhi))

RECURSIVE CountChar(_, _, _)
\* the number of occurrences of c in s[i..]
CountChar(s, c, i) ==
  IF i > Len(s) THEN 0
  ELSE (IF Ch(s, i) = c THEN 1 ELSE 0) + CountChar(s, c, i + 1)

RECURSIVE SumOver(_, _)
SumOver(f, S) ==
  IF S = {} THEN 0
  ELSE LET x == CHOOSE y \in S : TRUE IN f[x] + SumOver(f, S \ {x})

\* the numerators "matches" of ratio(), quick_ratio() and real_quick_ratio();
\* each ratio is 2.0 * matches / (len(a) + len(b)), and 1.0 when both are empty
RatioMatches(a, b) == MatchedChars(a, b, 1, Len(a), 1, Len(b))
CommonCount(a, b, cs) ==
  SumOver([c \in cs |-> Min(CountChar(a, c, 1), CountChar(b, c, 1))], cs)
QuickRatioMatches(a, b) == CommonCount(a, b, StrChars(a, 1) \cap StrChars(b, 1))
RealQuickRatioMatches(a, b) == Min(Len(a), Len(b))

\* the acceptance threshold of smart_match_country, in hundredths
CUTOFF == 88

\* the threshold test with > in place of >=
RatioAbove(matches, length, cutoff) ==
  IF length = 0 THEN 100 > cutoff ELSE 200 * matches > cutoff * length

\* 2.0 * matches / length >= cutoff / 100
RatioAtLeast(matches, length, cutoff) ==
  IF length = 0 THEN 100 >= cutoff ELSE 200 * matches >= cutoff * length

\* the test of get_close_matches for one possibility x against word
IsCloseMatch(word, x, cutoff) ==
  LET length == Len(x) + Len(word)
  IN  /\ RatioAtLeast(RealQuickRatioMatches(x, word), length, cutoff)
      /\ RatioAtLeast(QuickRatioMatches(x, word), length, cutoff)
      /\ RatioAtLeast(RatioMatches(x, word), length, cutoff)

\* (score of x, x) < (score of y, y) as Python tuples, the scores being ratio()
TupleLess(sx, x, sy, y) == sx < sy \/ (sx = sy /\ StrLess(x, y))
ScoredLess(word, x, y) ==
  TupleLess(RatioMatches(x, word) * (Len(y) + Len(word)), x,
            RatioMatches(y, word) * (Len(x) + Len(word)), y)

\* difflib.get_close_matches(word, possibilities, n=1, cutoff): <<>> or <<best>>
BestOf(word, close) ==
  IF close = {} THEN <<>>
  ELSE <<CHOOSE x \in close : \A y \in close \ {x} : ScoredLess(word, y, x)>>
get_close_matches(word, possibilities, cutoff) ==
  BestOf(word, {x \in possibilities : IsCloseMatch(word, x, cutoff)})

(***************************************************************************)
(* smart_match_country                                                     *)
(***************************************************************************)
\* lookup[lookup["name_fold"] == key]
LookupHits(lookup, key) == SeqFilter(lookup, LAMBDA r : r.name_fold = key, 1)

\* an alias step that maps a target back to one of its keys
FoldedKey_reversed(aliases, nf) ==
  IF \E n \in 1..Len(aliases) : aliases[n][2] = nf
  THEN aliases[CHOOSE n \in 1..Len(aliases) : aliases[n][2] = nf][1]
  ELSE nf
\* the key computed at line 151
FoldedKey(aliases, nf) == AliasGet(aliases, nf, nf)
AliasKey(aliases, name) == FoldedKey(aliases, fold(name))

\* a call that returns the lookup key of the row in place of its canonical name
Returned_name_fold(row, step) ==
  [iso3 |-> row.iso3, country_name |-> row.name_fold, step |-> step]
\* the row a call returns, with the step that returned it
Returned(row, step) == [iso3 |-> row.iso3, country_name |-> row.country_name, step |-> step]
Unresolved(step) == [iso3 |-> "", country_name |-> "", step |-> step]
\* the call raised: nothing is returned
Raised == [iso3 |-> "", country_name |-> "", step |-> "raised"]

\* smart_match_country without the fuzzy fallback of lines 155-159
match_country_exact_only(aliases, name, lookup) ==
  IF name = "" THEN Unresolved("empty")
  ELSE IF LookupHits(lookup, AliasKey(aliases, name)) # <<>>
       THEN Returned(LookupHits(lookup, AliasKey(aliases, name))[1], "exact")
  ELSE Unresolved("none")

\* lines 157-160
FuzzyMatch(lookup, best) ==
  IF best # <<>> THEN Returned(LookupHits(lookup, best[1])[1], "fuzzy")
  ELSE Unresolved("none")
\* lines 152-156
ExactMatch(lookup, nf, hit) ==
  IF hit # <<>> THEN Returned(hit[1], "exact")
  ELSE FuzzyMatch(lookup,
         get_close_matches(nf, {lookup[n].name_fold : n \in 1..Len(lookup)}, CUTOFF))
KeyMatch(lookup, nf) == ExactMatch(lookup, nf, LookupHits(lookup, nf))

\* smart_match_country without the test of line 150
match_country_unguarded(aliases, name, lookup) ==
  KeyMatch(lookup, AliasKey(aliases, name))

\* smart_match_country with the step that returns: "empty" (line 150),
\* "exact" (line 154), "fuzzy" (line 159) or "none" (line 160); "raised" when
\* "not name" raises TypeError, bool(pd.NA) being undefined.  None is falsy, a
\* float NaN is truthy.
match_country(aliases, name, lookup) ==
  IF name = NA THEN Raised
  ELSE IF name \in {"", None} THEN Unresolved("empty")
  ELSE KeyMatch(lookup, AliasKey(aliases, name))

Identity(m) == <<m.iso3, m.country_name>>
smart_match_country(aliases, name, lookup) == Identity(match_country(aliases, name, lookup))

(***************************************************************************)
(* The unmatched-names diagnostics of Normalizer.main, lines 474-485.      *)
(***************************************************************************)
\* the cutoff of the suggestions, in hundredths
DIAG_CUTOFF == 75

\* lookup["name_fold"].unique().tolist(), as a set
NameFolds(lookup) == {lookup[n].name_fold : n \in 1..Len(lookup)}

\* line 482: the canonical name of the first row of the candidate's key, or ""
Suggestion(lookup, cand) ==
  IF cand # <<>> THEN LookupHits(lookup, cand[1])[1].country_name ELSE ""

\* the row with a suggestion only when the candidate reaches the acceptance
\* threshold of the resolver
UnmatchedRow_at_acceptance(nm, lookup) ==
  [country_name    |-> nm,
   suggested_match |->
     Suggestion(lookup, get_close_matches(fold(nm), NameFolds(lookup), CUTOFF))]

\* lines 481-483: the row appended for the unresolved name nm
UnmatchedRow(nm, lookup) ==
  [country_name    |-> nm,
   suggested_match |->
     Suggestion(lookup, get_close_matches(fold(nm), NameFolds(lookup), DIAG_CUTOFF))]

RECURSIVE UnmatchedFrom(_, _, _)
\* lines 478-483: the loop over the names, from the i-th on
UnmatchedFrom(names, lookup, i) ==
  IF i > Len(names) THEN <<>>
  ELSE (IF smart_match_country(ALIASES, names[i], lookup)[1] = ""
        THEN <<UnmatchedRow(names[i], lookup)>> ELSE <<>>)
       \o UnmatchedFrom(names, lookup, i + 1)

\* line 477: df["country_name"].dropna().unique().tolist()
DistinctNames(names) ==
  DropDuplicates(SeqFilter(names, LAMBDA x : notna(x), 1), LAMBDA x : x, 1)

\* lines 475-483 for one ILO file; the lookup table is rebuilt from dim_pays
Diagnose(ilo_df, dim_pays) ==
  UnmatchedFrom(DistinctNames([n \in 1..Len(ilo_df) |-> ilo_df[n].country_name]),
                build_country_lookup(dim_pays), 1)

(***************************************************************************)
(* Row cleaning before the SQL insert: clean_row_values of test_fix.py and *)
(* the lambda of clean_dataframe in the DAG.  A cell is a Python value:    *)
(* kind is its type, v its printed form.                                   *)
(***************************************************************************)
PyFloat(v) == [kind |-> "float", v |-> v]
PyInt(v) == [kind |-> "int", v |-> v]
PyStr(v) == [kind |-> "str", v |-> v]
NoneCell == [kind |-> "NoneType", v |-> "None"]
NACell == [kind |-> "NAType", v |-> "<NA>"]

\* pd.isna(val) of a scalar
isna(val) ==
  \/ val.kind \in {"NoneType", "NAType"}
  \/ val.kind = "float" /\ val.v = "nan"

\* isinstance(val, float) and (val != val or val == inf or val == -inf)
IsNonFinite(val) == val.kind = "float" /\ val.v \in {"nan", "inf", "-inf"}

\* the strings of the last branch of clean_row_values, in its order
NULL_MARKERS == <<"", "#N/A", "NULL", "null", "nan", "NaN", "N/A", "NA">>

\* val == marker: a str equals a str of the same characters, nothing else does
EqualsMarker(val) ==
  \E n \in 1..Len(NULL_MARKERS) : val.kind = "str" /\ val.v = NULL_MARKERS[n]

\* the loop body without the whitespace branch
clean_value_without_strip(val) ==
  IF isna(val) \/ IsNonFinite(val) THEN NoneCell
  ELSE IF EqualsMarker(val) THEN NoneCell
  ELSE val

\* test_fix.py lines 7-14: what the loop body appends for val
clean_value(val) ==
  IF isna(val) \/ IsNonFinite(val) THEN NoneCell
  ELSE IF val.kind = "str" /\ StrStrip(val.v) = "" THEN NoneCell
  ELSE IF EqualsMarker(val) THEN NoneCell
  ELSE val

\* clean_row_values(row): tuple(cleaned_row)
clean_row_values(cells) == [i \in 1..Len(cells) |-> clean_value(cells[i])]

\* the lambda that clean_dataframe applies to every cell x of every column
clean_lambda(x) ==
  IF \/ isna(x)
     \/ IsNonFinite(x)
     \/ x.kind = "str" /\ StrStrip(x.v) = ""
     \/ EqualsMarker(x)
  THEN NoneCell
  ELSE x

(***************************************************************************)
(* Facts: the loaders that attach the resolved identity to their rows.     *)
(* A frame row carries `label`, its index label (0-based as in pandas);    *)
(* the rows of the result keep the label they had before reset_index, so   *)
(* that a result row can be related to the source row it comes from.       *)
(* Only the columns country_raw / country_name / iso3 / year / value are   *)
(* modelled (the indicator, unit and source columns do not depend on the   *)
(* resolution).                                                            *)
(***************************************************************************)
\* a missing (NaN) value of the numeric column "value"
NoValue == 0

\* "canon if canon else nm", stored in a Series of dtype "string"
CanonOrRaw(canon, nm) == IF canon # "" THEN canon ELSE IF nm = NaN THEN NA ELSE nm

\* df[col] = pd.Series(values, dtype="string"): the Series has the labels
\* 0..len(values)-1 and is aligned on the frame's index labels; a label the
\* Series does not have gives <NA>
AlignedAt(values, label) ==
  IF label + 1 <= Len(values) THEN values[label + 1] ELSE NA

\* the loop "for nm in df[...]": the resolver's answer for every raw name
MatchAll(aliases, names, lookup) ==
  [n \in 1..Len(names) |-> smart_match_country(aliases, names[n], lookup)]
\* iso3_list / iso3s
Iso3List(matches) == [n \in 1..Len(matches) |-> matches[n][1]]
\* canon_list / names: "canon if canon else nm"
CanonList(matches, names) ==
  [n \in 1..Len(matches) |-> CanonOrRaw(matches[n][2], names[n])]

\* lines 232-233: the two columns assigned to the frame
HarmonizedRows(ilo_df, iso3_list, canon_list) ==
  [n \in 1..Len(ilo_df) |->
     [label        |-> ilo_df[n].label,
      iso3         |-> AlignedAt(iso3_list, ilo_df[n].label),
      country_name |-> AlignedAt(canon_list, ilo_df[n].label)]]
HarmonizedFrom(ilo_df, names, matches) ==
  HarmonizedRows(ilo_df, Iso3List(matches), CanonList(matches, names))
CountryNames(ilo_df) == [n \in 1..Len(ilo_df) |-> ilo_df[n].country_name]
HarmonizedWith(ilo_df, names, lookup) ==
  HarmonizedFrom(ilo_df, names, MatchAll(ALIASES, names, lookup))

\* Normalizer.py
harmonize_ilo_with_dim(ilo_df, lookup) ==
  SeqFilter(HarmonizedWith(ilo_df, CountryNames(ilo_df), lookup),
            LAMBDA r : ~is_israel(r.country_name, r.iso3), 1)

\* pd.read_csv(path): the rows of the file get the labels 0, 1, 2, ...
ReadCsv(file) ==
  [n \in 1..Len(file) |->
     [label |-> n - 1, country_raw |-> file[n].country_raw,
      year |-> file[n].year, value |-> file[n].value]]

\* df.reset_index(drop=True)
ResetIndex(df) == [n \in 1..Len(df) |-> [df[n] EXCEPT !.label = n - 1]]

\* Normalizer.py (a file already in long form): the rows with a missing year
\* or value are dropped, the others keep their labels
normalize_etd_to_long(file) ==
  SeqFilter(ReadCsv(file), LAMBDA r : r.year # NoYear /\ r.value # NoValue, 1)

\* country_to_regionagg.py: the same, followed by reset_index(drop=True)
normalize_etd_to_long_regionagg(file) ==
  ResetIndex(SeqFilter(ReadCsv(file), LAMBDA r : r.year # NoYear /\ r.value # NoValue, 1))

\* lines 323-324 of Normalizer.py, 165-166 of country_to_regionagg.py: the
\* two columns assigned to the frame
IdentityRows(etd_long, iso3s, names) ==
  [n \in 1..Len(etd_long) |->
     [label        |-> etd_long[n].label,
      country_raw  |-> etd_long[n].country_raw,
      year         |-> etd_long[n].year,
      value        |-> etd_long[n].value,
      iso3         |-> AlignedAt(iso3s, etd_long[n].label),
      country_name |-> AlignedAt(names, etd_long[n].label)]]
IdentityFrom(etd_long, raws, matches) ==
  IdentityRows(etd_long, Iso3List(matches), CanonList(matches, raws))
CountryRaws(etd_long) == [n \in 1..Len(etd_long) |-> etd_long[n].country_raw]
IdentityWith(aliases, etd_long, raws, lookup) ==
  IdentityFrom(etd_long, raws, MatchAll(aliases, raws, lookup))

\* lines 318-324 of Normalizer.py, 159-166 of country_to_regionagg.py: the
\* frame etd_long with its two new columns
WithIdentity(aliases, etd_long, lookup) ==
  IdentityWith(aliases, etd_long, CountryRaws(etd_long), lookup)

\* Normalizer.py: the fact frame before reset_index
build_fact_policyeconomy(etd_long, lookup) ==
  SeqFilter(SeqFilter(WithIdentity(ALIASES, etd_long, lookup),
                      LAMBDA r : ~is_israel(r.country_name, r.iso3), 1),
            LAMBDA r : notna(r.iso3) /\ r.value # NoValue, 1)

\* country_to_regionagg.py
create_etd_fact(etd_long, lookup) ==
  SeqFilter(SeqFilter(WithIdentity(ALIASES_regionagg, etd_long, lookup),
                      LAMBDA r : ~is_israel(r.country_name, r.iso3), 1),
            LAMBDA r : notna(r.iso3), 1)


(***************************************************************************)
(* src/dw_etl: load_ilostat_quick.                                         *)
(***************************************************************************)
\* utils.py: ISO_ALIASES
ISO_ALIASES ==
  << <<"Congo, Dem. Rep.", "COD">>, <<"Congo, Rep.", "COG">>,
     <<"CA'te d'Ivoire", "CIV">>, <<"Kyrgyz Republic", "KGZ">>,
     <<"Egypt, Arab Rep.", "EGY">>, <<"Gambia, The", "GMB">> >>

\* config.py: EXCLUDE_ISO3
EXCLUDE_ISO3 == {"ISR"}

\* line 34: df['country_name'] = df['country_name'].replace(ISO_ALIASES); a
\* value equal to a key is replaced by the key's code
ReplacedRow(r) ==
  [country_name |-> AliasGet(ISO_ALIASES, r.country_name, r.country_name),
   year |-> r.year, value |-> r.value]

\* the rows of pd.merge(df, dim_country[['country_name','iso3']],
\* on='country_name', how='left') for the row r of df: one per row of
\* dim_country with the same country_name, one without iso3 when there is none
MergedRow(r, code) ==
  [iso3 |-> code, country_name |-> r.country_name, year |-> r.year, value |-> r.value]
MergedWith(r, hits) ==
  IF hits = <<>> THEN <<MergedRow(r, NaN)>>
  ELSE [n \in 1..Len(hits) |-> MergedRow(r, hits[n].iso3)]
MergeLeftRow(r, dim_country) ==
  MergedWith(r, SeqFilter(dim_country,
                          LAMBDA d : notna(r.country_name) /\ d.country_name = r.country_name, 1))
RECURSIVE MergeLeft(_, _, _)
MergeLeft(df, dim_country, i) ==
  IF i > Len(df) THEN <<>>
  ELSE MergeLeftRow(ReplacedRow(df[i]), dim_country) \o MergeLeft(df, dim_country, i + 1)

\* utils.py: exclude_israel(df, "iso3")
exclude_israel(df) == SeqFilter(df, LAMBDA r : r.iso3 \notin EXCLUDE_ISO3, 1)

\* loaders/ilostat.py: the rows load_ilostat_quick returns for the rows csv of
\* the file (the columns country_name, year and the measure)
load_ilostat_quick(csv, dim_country) ==
  SeqFilter(exclude_israel(MergeLeft(csv, dim_country, 1)),
            LAMBDA r : r.year # NoYear /\ r.value # NoValue, 1)

(***************************************************************************)
(* The state machine: one run of a script of src/data.                     *)
(***************************************************************************)
VARIABLES
  script,    \* the script that runs: "Normalizer" or "country_to_regionagg"
  pc,        \* the position of the run
  wiid,      \* the reference dataset, as load_wiid_country returns it
  dim_pays,  \* the Registry
  lookup,    \* the lookup table
  name,      \* smart_match_country: the raw name of the last call
  result,    \* smart_match_country: the <<iso3, country_name>> it returned
  step,      \* smart_match_country: the step that returned
  ilo_df,    \* the frame load_ilo_csv returned
  staging,   \* the frame harmonize_ilo_with_dim returned
  etd_long,  \* the long ETD frame
  fact,      \* the fact frame built from etd_long
  folded,    \* fold: the results of its successive applications to `name`
  calls,     \* the calls of smart_match_country the loaders made, in order
  unmatched, \* the rows of the unmatched-names diagnostics of Normalizer.main
  row, \* clean_row_values: the row it is given
  cleaned,\* clean_row_values: the tuple it returned
  dim_geography, \* run_all.main: the geography dimension
  ilo_csv, \* the rows of an ILOSTAT quick-download file
  ilos,\* the frame load_ilostat_quick returned
  task_state, \* the DAG run: state and tries of every task
  out_dir, \* the CSV files of /opt/airflow/dags/out, with their chunks
  load, \* write_csvs_to_mssql: its position in the two table loops
  mssql, \* the database: tables, rows and constraint state
  processed \* write_csvs_to_mssql: what it did with each table so far

vars == <<script, pc, wiid, dim_pays, lookup, name, result, step,
          ilo_df, staging, etd_long, fact, folded, calls, unmatched, row, cleaned, dim_geography, ilo_csv, ilos, task_state, out_dir, load, mssql, processed>>

\* sequences over S of length lo..hi
SeqsOf(S, lo, hi) == UNION {[1..n -> S] : n \in lo..hi}

W(country, c3, year) == [country |-> country, c3 |-> c3, year |-> year, region_wb |-> "wb"]

\* the rows a reference dataset is made of
WiidPool ==
  { W("United States", "USA", 2020),
    W("Russia", "RUS", 2020),
    W("Myanmar", "MMR", 2020),
    W("Iran, Islamic Republic of", "IRN", 2020),
    W("Viet Nam", "VNM", 2020),
    W("Vietnam", "VNM", 2019),
    W("Vietnam", "VNM", 2021),
    W("Congo", "COG", 2020),
    W("Congo, Democratic Republic", "COD", 2020),
    W("State of Israel", "IL", 2020),
    W("Palestine", "Isr", 2020),
    W("State of Isreal", "ISL", 2020),
    W("Atlantis", NaN, 2020),
    W(NaN, "RUS", NoYear) }

\* reference rows whose names fold to the values of ALIASES (for "cote
\* d'ivoire", which no name folds to, the name that folds nearest)
AliasTargetPool ==
  { W("Cote d'Ivoire", "CIV", 2020), W("Vietnam", "VNM", 2020),
    W("Russia", "RUS", 2020), W("Bolivia", "BOL", 2020),
    W("Brunei", "BRN", 2020), W("Democratic Republic of the Congo", "COD", 2020),
    W("Congo", "COG", 2020), W("Iran", "IRN", 2020), W("Laos", "LAO", 2020),
    W("Micronesia", "FSM", 2020), W("Moldova", "MDA", 2020),
    W("South Korea", "KOR", 2020), W("North Korea", "PRK", 2020),
    W("Syria", "SYR", 2020), W("Tanzania", "TZA", 2020),
    W("United States", "USA", 2020), W("Swaziland", "SWZ", 2020),
    W("Cape Verde", "CPV", 2020), W("Vatican City", "VAT", 2020),
    W("Burma", "MMR", 2020) }

\* the raw names the loaders ask the resolver about, besides the canonical
\* names of the Registry
RawNames ==
  { "", "Russian Federation", "Iran", "Iran, Islamic Republic of", "vietnam",
    "Viet Nam", "Congo", "Israel", "State of Israel", "Germny", NaN }

\* the rows of the reference dataset of a run that goes on to build facts
LoaderPool ==
  { W("Russia", "RUS", 2020),
    W("Viet Nam", "VNM", 2020),
    W("State of Isreal", "ISL", 2020) }

\* the country names of the rows of an ILO file
IloNames == { "Russian Federation", "State of Israel", "Atlantis", NaN }

\* the rows of an ETD file: (country, year, value), the value missing or not
EtdRows ==
  { [country_raw |-> c, year |-> 2020, value |-> v] :
      c \in {"Russian Federation", "State of Israel", "Atlantis"},
      v \in {NoValue, 1} }

InitCommon ==
  /\ pc = "loaded"
  /\ dim_pays = <<>>
  /\ lookup = <<>>
  /\ name = ""
  /\ result = <<"", "">>
  /\ step = ""
  /\ ilo_df = <<>>
  /\ staging = <<>>
  /\ etd_long = <<>>
  /\ fact = <<>>
  /\ folded = <<>>
  /\ calls = <<>>
  /\ unmatched = <<>>
  /\ row = <<>>
  /\ cleaned = <<>>
  /\ dim_geography = <<>>
  /\ ilo_csv = <<>>
  /\ ilos = <<>>
  /\ task_state = <<>>
  /\ out_dir = <<>>
  /\ load = <<>>
  /\ mssql = <<>>
  /\ processed = <<>>

\* a run of Normalizer.py up to the lookup table, followed by a resolver call
Init ==
  /\ script = "Normalizer"
  /\ wiid \in SeqsOf(WiidPool, 0, MaxRows) \cup SeqsOf(AliasTargetPool, 1, MaxAliasRows)
  /\ InitCommon

\* a run of either script that goes on to build facts
InitLoaders ==
  /\ script \in Scripts
  /\ wiid \in SeqsOf(LoaderPool, 0, MaxRows)
  /\ InitCommon

\* dim_pays = build_dim_pays_from_wiid(wiid)
\* a build that drops the first row of the dataset it is given, in place
BuildDimPays_consuming ==
  /\ pc = "loaded"
  /\ wiid # <<>>
  /\ ~DimRaises(wiid)
  /\ pc' = "dim"
  /\ dim_pays' = build_dim_pays_from_wiid(wiid)
  /\ wiid' = Tail(AddMissingColumns(wiid))
  /\ UNCHANGED <<script, lookup, name, result, step, ilo_df, staging, etd_long, fact, folded, calls, unmatched, row, cleaned, dim_geography, ilo_csv, ilos, task_state, out_dir, load, mssql, processed>>

\* (country_to_regionagg.py returns at line 230 when wiid is empty); the call
\* leaves the columns it added in the caller's frame
BuildDimPays ==
  /\ pc = "loaded"
  /\ IF script = "country_to_regionagg" /\ wiid = <<>>
     THEN pc' = "returned" /\ dim_pays' = dim_pays /\ wiid' = wiid
     ELSE IF DimRaises(wiid)
     THEN pc' = "raised" /\ dim_pays' = dim_pays /\ wiid' = AddMissingColumns(wiid)
     ELSE /\ pc' = "dim"
          /\ dim_pays' = build_dim_pays_from_wiid(wiid)
          /\ wiid' = AddMissingColumns(wiid)
  /\ UNCHANGED <<script, lookup, name, result, step, ilo_df, staging, etd_long, fact, folded, calls, unmatched, row, cleaned, dim_geography, ilo_csv, ilos, task_state, out_dir, load, mssql, processed>>

\* lookup = build_country_lookup(dim_pays)
BuildCountryLookup ==
  /\ pc = "dim"
  /\ lookup' = IF script = "Normalizer" THEN build_country_lookup(dim_pays)
               ELSE build_country_lookup_regionagg(dim_pays)
  /\ pc' = "ready"
  /\ UNCHANGED <<script, wiid, dim_pays, name, result, step, ilo_df, staging, etd_long, fact, folded, calls, unmatched, row, cleaned, dim_geography, ilo_csv, ilos, task_state, out_dir, load, mssql, processed>>

\* the call smart_match_country(nm, lookup) answered m
Answered(nm, m) ==
  /\ name' = nm
  /\ result' = IF m.step = "raised" THEN result ELSE Identity(m)
  /\ step' = m.step

\* iso3, canon = smart_match_country(nm, lookup)
SmartMatchCountry ==
  /\ pc = "ready"
  /\ \E nm \in RawNames \cup {dim_pays[n].country_name : n \in 1..Len(dim_pays)} :
       Answered(nm, match_country(AliasesOf(script), nm, lookup))
  /\ pc' = "matched"
  /\ UNCHANGED <<script, wiid, dim_pays, lookup, ilo_df, staging, etd_long, fact, folded, calls, unmatched, row, cleaned, dim_geography, ilo_csv, ilos, task_state, out_dir, load, mssql, processed>>

\* Normalizer.main: df = load_ilo_csv(p)
LoadIloCsv ==
  /\ pc = "ready"
  /\ script = "Normalizer"
  /\ \E names \in SeqsOf(IloNames, 1, MaxFactRows) :
       ilo_df' = [n \in 1..Len(names) |-> [label |-> n - 1, country_name |-> names[n]]]
  /\ pc' = "ilo_loaded"
  /\ UNCHANGED <<script, wiid, dim_pays, lookup, name, result, step, staging, etd_long, fact, folded, calls, unmatched, row, cleaned, dim_geography, ilo_csv, ilos, task_state, out_dir, load, mssql, processed>>

\* Normalizer.main: df2 = harmonize_ilo_with_dim(df, lookup, code)
HarmonizeIlo ==
  /\ pc = "ilo_loaded"
  /\ staging' = harmonize_ilo_with_dim(ilo_df, lookup)
  /\ pc' = "harmonized"
  /\ UNCHANGED <<script, wiid, dim_pays, lookup, name, result, step, ilo_df, etd_long, fact, folded, calls, unmatched, row, cleaned, dim_geography, ilo_csv, ilos, task_state, out_dir, load, mssql, processed>>

\* etd_long = normalize_etd_to_long(path)
NormalizeEtd ==
  /\ pc = "ready"
  /\ \E file \in SeqsOf(EtdRows, 1, MaxFactRows) :
       etd_long' = IF script = "Normalizer" THEN normalize_etd_to_long(file)
                   ELSE normalize_etd_to_long_regionagg(file)
  /\ pc' = "etd_loaded"
  /\ UNCHANGED <<script, wiid, dim_pays, lookup, name, result, step, ilo_df, staging, fact, folded, calls, unmatched, row, cleaned, dim_geography, ilo_csv, ilos, task_state, out_dir, load, mssql, processed>>

\* Normalizer.main: fact_etd, dim_ind2 = build_fact_policyeconomy(etd_long, ...);
\* the two new columns are set on the caller's frame
BuildFactPolicyEconomy ==
  /\ pc = "etd_loaded"
  /\ script = "Normalizer"
  /\ etd_long' = WithIdentity(ALIASES, etd_long, lookup)
  /\ fact' = build_fact_policyeconomy(etd_long, lookup)
  /\ pc' = "fact_built"
  /\ UNCHANGED <<script, wiid, dim_pays, lookup, name, result, step, ilo_df, staging, folded, calls, unmatched, row, cleaned, dim_geography, ilo_csv, ilos, task_state, out_dir, load, mssql, processed>>

\* run_etd_regional_etl: fact_etd = create_etd_fact(etd_long, lookup), which
\* is not called on an empty frame
CreateEtdFact ==
  /\ pc = "etd_loaded"
  /\ script = "country_to_regionagg"
  /\ etd_long # <<>>
  /\ etd_long' = WithIdentity(ALIASES_regionagg, etd_long, lookup)
  /\ fact' = create_etd_fact(etd_long, lookup)
  /\ pc' = "fact_built"
  /\ UNCHANGED <<script, wiid, dim_pays, lookup, name, result, step, ilo_df, staging, folded, calls, unmatched, row, cleaned, dim_geography, ilo_csv, ilos, task_state, out_dir, load, mssql, processed>>

Next == BuildDimPays \/ BuildCountryLookup \/ SmartMatchCountry

Spec == Init /\ [][Next]_vars

NextLoaders ==
  \/ BuildDimPays
  \/ BuildCountryLookup
  \/ LoadIloCsv
  \/ HarmonizeIlo
  \/ NormalizeEtd
  \/ BuildFactPolicyEconomy
  \/ CreateEtdFact

SpecLoaders == InitLoaders /\ [][NextLoaders]_vars

\* the empty name and the values that stand for a missing name: None, a float
\* NaN and pd.NA
MissingValues == { "", None, NaN, NA }

\* iso3, canon = smart_match_country(nm, lookup), nm empty or missing
SmartMatchMissing ==
  /\ pc = "ready"
  /\ \E nm \in MissingValues :
       Answered(nm, match_country(AliasesOf(script), nm, lookup))
  /\ pc' = "matched"
  /\ UNCHANGED <<script, wiid, dim_pays, lookup, ilo_df, staging, etd_long, fact, folded, calls, unmatched, row, cleaned, dim_geography, ilo_csv, ilos, task_state, out_dir, load, mssql, processed>>

NextMissing == BuildDimPays \/ BuildCountryLookup \/ SmartMatchMissing

SpecMissing == Init /\ [][NextMissing]_vars

\* the characters the inputs of fold are made of: letters of both cases, a
\* digit, white space, punctuation, "_", an accented letter, a character whose
\* compatibility decomposition is the upper-case "TM", a combining mark
FoldAlphabet == { "a", "Z", "1", " ", "-", "'", "_", "É", "¶", "¦" }

RECURSIVE StringsUpTo(_, _)
\* the strings of at most n characters of alphabet
StringsUpTo(alphabet, n) ==
  IF n = 0 THEN {""}
  ELSE StringsUpTo(alphabet, n - 1)
         \cup {t \o c : t \in StringsUpTo(alphabet, n - 1), c \in alphabet}

\* the values fold is applied to
FoldInputs ==
  StringsUpTo(FoldAlphabet, MaxLen) \cup {"Côte d'Ivoire", "Cote-d-Ivoire", None, NaN}

InitFold ==
  /\ script = "Normalizer"
  /\ pc = "fold"
  /\ wiid = <<>>
  /\ dim_pays = <<>>
  /\ lookup = <<>>
  /\ name \in FoldInputs
  /\ result = <<"", "">>
  /\ step = ""
  /\ ilo_df = <<>>
  /\ staging = <<>>
  /\ etd_long = <<>>
  /\ fact = <<>>
  /\ folded = <<>>
  /\ calls = <<>>
  /\ unmatched = <<>>
  /\ row = <<>>
  /\ cleaned = <<>>
  /\ dim_geography = <<>>
  /\ ilo_csv = <<>>
  /\ ilos = <<>>
  /\ task_state = <<>>
  /\ out_dir = <<>>
  /\ load = <<>>
  /\ mssql = <<>>
  /\ processed = <<>>

\* fold(name)
FoldOnce ==
  /\ pc = "fold"
  /\ folded' = <<fold(name)>>
  /\ pc' = "folded"
  /\ UNCHANGED <<script, wiid, dim_pays, lookup, name, result, step, ilo_df, staging, etd_long, fact, calls, unmatched, row, cleaned, dim_geography, ilo_csv, ilos, task_state, out_dir, load, mssql, processed>>

\* fold(fold(name))
FoldAgain ==
  /\ pc = "folded"
  /\ folded' = Append(folded, fold(folded[1]))
  /\ pc' = "refolded"
  /\ UNCHANGED <<script, wiid, dim_pays, lookup, name, result, step, ilo_df, staging, etd_long, fact, calls, unmatched, row, cleaned, dim_geography, ilo_csv, ilos, task_state, out_dir, load, mssql, processed>>

NextFold == FoldOnce \/ FoldAgain

SpecFold == InitFold /\ [][NextFold]_vars

\* the call of loader on nm answered m: it is added to the log
Logged(loader, nm, m) ==
  /\ Answered(nm, m)
  /\ calls' = Append(calls, [loader |-> loader, name |-> nm, result |-> Identity(m)])

\* the rows of the lookup table without those of the identity a call returned
WithoutReturned(lk, m) ==
  SeqFilter(lk, LAMBDA r : <<r.iso3, r.country_name>> # Identity(m), 1)
ConsumedBy(loader, nm, m) ==
  Logged(loader, nm, m) /\ lookup' = WithoutReturned(lookup, m)

\* a call that removes the rows it returns from the lookup table
CallFrom_consuming(loader, names) ==
  /\ pc \in {"ready", "called"}
  /\ Len(calls) < MaxCalls
  /\ \E nm \in names : ConsumedBy(loader, nm, match_country(AliasesOf(script), nm, lookup))
  /\ pc' = "called"
  /\ UNCHANGED <<script, wiid, dim_pays, ilo_df, staging, etd_long, fact, folded, unmatched, row, cleaned, dim_geography, ilo_csv, ilos, task_state, out_dir, load, mssql, processed>>

\* one iteration of a loader's loop over its names:
\* iso3, canon = smart_match_country(nm, lookup)
CallFrom(loader, names) ==
  /\ pc \in {"ready", "called"}
  /\ Len(calls) < MaxCalls
  /\ \E nm \in names : Logged(loader, nm, match_country(AliasesOf(script), nm, lookup))
  /\ pc' = "called"
  /\ UNCHANGED <<script, wiid, dim_pays, lookup, ilo_df, staging, etd_long, fact, folded, unmatched, row, cleaned, dim_geography, ilo_csv, ilos, task_state, out_dir, load, mssql, processed>>

\* harmonize_ilo_with_dim, lines 228-229
ResolveIloName == CallFrom("ilo", IloNames)
\* build_fact_policyeconomy, lines 319-320 (create_etd_fact, lines 160-161)
ResolveEtdName == CallFrom("etd", {r.country_raw : r \in EtdRows})

\* the rows of the reference dataset of a run whose loaders call in turn
CallsPool == { W("Russia", "RUS", 2020), W("State of Isreal", "ISL", 2020) }

InitCalls ==
  /\ script \in Scripts
  /\ wiid \in SeqsOf(CallsPool, 0, MaxRows)
  /\ InitCommon

\* the loaders' calls in any interleaving
NextCalls == BuildDimPays \/ BuildCountryLookup \/ ResolveIloName \/ ResolveEtdName

SpecCalls == InitCalls /\ [][NextCalls]_vars

\* the rows of a reference dataset that is built from twice
RebuildPool ==
  { W("Viet Nam", "VNM", 2020),
    W("Vietnam", "VNM", 2019),
    W("Russia", "RUS", 2020),
    W("State of Israel", "IL", 2020),
    W("Atlantis", NaN, 2020) }

\* the dataset read from a file that has no "year" column
WithoutYear(rows) ==
  [n \in 1..Len(rows) |->
     [country |-> rows[n].country, c3 |-> rows[n].c3, region_wb |-> rows[n].region_wb]]

InitRebuild ==
  /\ script = "Normalizer"
  /\ \E rows \in SeqsOf(RebuildPool, 0, MaxRows) : wiid \in {rows, WithoutYear(rows)}
  /\ InitCommon

\* a second dim_pays = build_dim_pays_from_wiid(wiid), on the frame the first
\* call left
RebuildDimPays ==
  /\ pc = "dim"
  /\ IF DimRaises(wiid)
     THEN pc' = "raised" /\ dim_pays' = dim_pays
     ELSE pc' = "rebuilt" /\ dim_pays' = build_dim_pays_from_wiid(wiid)
  /\ wiid' = AddMissingColumns(wiid)
  /\ UNCHANGED <<script, lookup, name, result, step, ilo_df, staging, etd_long, fact, folded, calls, unmatched, row, cleaned, dim_geography, ilo_csv, ilos, task_state, out_dir, load, mssql, processed>>

NextRebuild == BuildDimPays \/ RebuildDimPays

SpecRebuild == InitRebuild /\ [][NextRebuild]_vars

\* the rows of the reference dataset of a run that ends with the diagnostics
DiagPool == { W("Germany", "DEU", 2020), W("Russia", "RUS", 2020) }

\* the country names of the ILO file of that run: "Germny" is resolved by the
\* fuzzy fallback (0.923), "Germony" is not (0.857), "Atlantis" is near no name
DiagNames == { "Germny", "Germony", "Atlantis", NaN }

InitDiag ==
  /\ script = "Normalizer"
  /\ wiid \in SeqsOf(DiagPool, 0, MaxRows)
  /\ InitCommon

\* Normalizer.main: df = load_ilo_csv(p)
LoadIloFile ==
  /\ pc = "ready"
  /\ \E names \in SeqsOf(DiagNames, 1, MaxFactRows) :
       ilo_df' = [n \in 1..Len(names) |-> [label |-> n - 1, country_name |-> names[n]]]
  /\ pc' = "ilo_loaded"
  /\ UNCHANGED <<script, wiid, dim_pays, lookup, name, result, step, staging, etd_long, fact, folded, calls, unmatched, row, cleaned, dim_geography, ilo_csv, ilos, task_state, out_dir, load, mssql, processed>>

\* Normalizer.main, lines 474-485: the unmatched-names diagnostics
Diagnostics ==
  /\ pc = "harmonized"
  /\ unmatched' = Diagnose(ilo_df, dim_pays)
  /\ pc' = "diagnosed"
  /\ UNCHANGED <<script, wiid, dim_pays, lookup, name, result, step, ilo_df, staging, etd_long, fact, folded, calls, row, cleaned, dim_geography, ilo_csv, ilos, task_state, out_dir, load, mssql, processed>>

NextDiag ==
  \/ BuildDimPays
  \/ BuildCountryLookup
  \/ LoadIloFile
  \/ HarmonizeIlo
  \/ Diagnostics

SpecDiag == InitDiag /\ [][NextDiag]_vars

\* the rows of a reference dataset whose names the misspelt names are near
FuzzyPool ==
  { W("Germany", "DEU", 2020),
    W("Chad", "TCD", 2020),
    W("Chile", "CHL", 2020),
    W("Russia", "RUS", 2020),
    W("United States", "USA", 2020) }

\* raw names that are no key of the lookup table unless they are canonical:
\* misspellings at 0.923 ("Germny"), 0.88 ("Unitd Statez"), 0.857 ("Germony")
\* and 0.833 ("Rusisa", the letters of "russia" in another order) of a name
TypoNames == { "Germny", "Germony", "Chad", "Chile", "Rusisa", "Unitd Statez" }

\* a run of Normalizer.py on a reference dataset drawn from FuzzyPool
InitFuzzy ==
  /\ script = "Normalizer"
  /\ wiid \in SeqsOf(FuzzyPool, 0, MaxRows)
  /\ InitCommon

\* iso3, canon = smart_match_country(nm, lookup), nm a misspelt name
SmartMatchTypo ==
  /\ pc = "ready"
  /\ \E nm \in TypoNames :
       Answered(nm, match_country(AliasesOf(script), nm, lookup))
  /\ pc' = "matched"
  /\ UNCHANGED <<script, wiid, dim_pays, lookup, ilo_df, staging, etd_long, fact, folded, calls, unmatched, row, cleaned, dim_geography, ilo_csv, ilos, task_state, out_dir, load, mssql, processed>>

NextFuzzy == BuildDimPays \/ BuildCountryLookup \/ SmartMatchTypo

SpecFuzzy == InitFuzzy /\ [][NextFuzzy]_vars

(***************************************************************************)
(* Properties.                                                             *)
(***************************************************************************)
\* the resolver has been called
Matched == pc = "matched"
\* the Registry has been built
HasRegistry == pc \notin {"loaded", "raised", "returned", "fold", "folded", "refolded"}
\* the lookup table has been built
HasLookup == HasRegistry /\ pc # "dim"
\* the rows of the Registry
Identities == {dim_pays[n] : n \in 1..Len(dim_pays)}

\* C1: for every identity of the Registry, smart_match_country on its
\* canonical name returns exactly that identity's (iso3, canonical name).
C1_ExactMatch ==
  Matched =>
    \A r \in Identities :
      name = r.country_name => result = <<r.iso3, r.country_name>>

\* C2: for every ALIASES entry a -> t and every Registry that has an identity
\* whose folded canonical name is t, smart_match_country(a) returns the
\* (iso3, canonical name) of that identity (the first one in Registry order),
\* and it does so through the exact lookup.
C2_AliasResolution ==
  pc = "ready" =>
    \A k \in 1..Len(ALIASES) :
      \A n \in 1..Len(dim_pays) :
        (/\ fold(dim_pays[n].country_name) = ALIASES[k][2]
         /\ \A m \in 1..(n - 1) : fold(dim_pays[m].country_name) # ALIASES[k][2])
        => match_country(ALIASES, ALIASES[k][1], lookup)
             = [iso3 |-> dim_pays[n].iso3, country_name |-> dim_pays[n].country_name,
                step |-> "exact"]

\* C2 witness: "Russian Federation" was resolved to Russia by the exact lookup
C2_Witness ==
  /\ Matched
  /\ name = "Russian Federation"
  /\ result = <<"RUS", "Russia">>
  /\ step = "exact"

\* C3: when the Registry's canonical name for an identity is "Iran, Islamic
\* Republic of", both "Iran" and "Iran, Islamic Republic of" resolve to that
\* identity's ISO3.
C3_StrippedQualifier ==
  Matched =>
    \A r \in Identities :
      (r.country_name = "Iran, Islamic Republic of"
       /\ name \in {"Iran", "Iran, Islamic Republic of"})
      => result[1] = r.iso3

\* C4: the identity kept for an ISO3 carries the name of the most-recent-year
\* record of that ISO3 in the reference dataset.
C4_LatestYearName ==
  HasRegistry =>
    \A r \in Identities :
      \E i \in 1..Len(wiid) :
        /\ wiid[i].c3 = r.iso3
        /\ wiid[i].country = r.country_name
        /\ \A j \in 1..Len(wiid) :
             (wiid[j].c3 = r.iso3 /\ notna(wiid[j].country))
             => wiid[j].year <= wiid[i].year

\* the reference rows of the end-to-end scenario
VietNamRows == << W("Viet Nam", "VNM", 2020), W("Vietnam", "VNM", 2019) >>
VietNamRegistry ==
  /\ Len(dim_pays) = 1
  /\ dim_pays[1].iso3 = "VNM"
  /\ dim_pays[1].country_name = "Viet Nam"

\* C5 as claimed: from the rows [("Viet Nam","VNM",2020), ("Vietnam","VNM",2019)]
\* the Registry is the one identity (VNM, "Viet Nam") and "vietnam" resolves to
\* it by the alias step or the exact lookup, without the fuzzy fallback.
C5_ScenarioExact ==
  (wiid = VietNamRows /\ Matched /\ name = "vietnam")
  => (VietNamRegistry /\ result = <<"VNM", "Viet Nam">> /\ step = "exact")

\* C5 as amended: from the rows [("Viet Nam","VNM",2020), ("Vietnam","VNM",2019)]
\* the Registry is the one identity (VNM, "Viet Nam") and "vietnam" resolves to
\* ("VNM", "Viet Nam") through the fuzzy fallback.
C5_ScenarioFuzzy ==
  /\ (wiid = VietNamRows /\ HasRegistry) => VietNamRegistry
  /\ (wiid = VietNamRows /\ Matched /\ name = "vietnam")
     => (result = <<"VNM", "Viet Nam">> /\ step = "fuzzy")

\* C5 witness: the scenario has run
C5_Witness ==
  /\ wiid = VietNamRows
  /\ Matched
  /\ name = "vietnam"
  /\ result = <<"VNM", "Viet Nam">>

\* C6: in the lookup table every name_fold key belongs to at most one iso3.
C6_KeyUniqueness ==
  HasLookup =>
    \A i, j \in 1..Len(lookup) :
      lookup[i].name_fold = lookup[j].name_fold => lookup[i].iso3 = lookup[j].iso3

\* the rows of the lookup table registered for the key of the last call
KeyRows == LookupHits(lookup, AliasKey(AliasesOf(script), name))

\* C7: when a key is registered for several identities, the identity the exact
\* lookup returns is the one registered last (canonical, then stripped, then
\* alias rows).
C7_LastRegisteredWins ==
  (Matched /\ step = "exact")
  => result = <<KeyRows[Len(KeyRows)].iso3, KeyRows[Len(KeyRows)].country_name>>

\* C8: the Registry has no row whose iso3 is "ISR" in any letter case and no
\* row whose folded name contains "israel".
C8_RegistryExclusion ==
  HasRegistry =>
    \A r \in Identities :
      /\ StrUpper(r.iso3) # "ISR"
      /\ ~Contains(fold(r.country_name), "israel")

\* C8 witness: the reference dataset had a row excluded by its code and a row
\* excluded by its name, and the Registry kept another row
C8_Witness ==
  /\ HasRegistry
  /\ \E i \in 1..Len(wiid) : wiid[i].c3 = "Isr" \/ wiid[i].country = "State of Israel"
  /\ Len(dim_pays) > 0

\* a raw name whose folded form contains "israel" or is the folded name of an
\* excluded row of the reference dataset
FoldsToExcluded(nm) ==
  \/ Contains(fold(nm), "israel")
  \/ \E i \in 1..Len(wiid) :
       /\ notna(wiid[i].country)
       /\ is_israel(wiid[i].country, wiid[i].c3)
       /\ fold(wiid[i].country) = fold(nm)

\* C9: smart_match_country returns ("", "") for every raw name whose folded
\* form is that of an excluded identity.
C9_ExclusionAtResolution ==
  (Matched /\ FoldsToExcluded(name)) => result = <<"", "">>

\* the exclusion rule applied to a surviving row and to its raw name
RowExcluded(iso3, country_name, raw) ==
  \/ (notna(iso3) /\ StrUpper(iso3) = "ISR")
  \/ Contains(fold(country_name), "israel")
  \/ Contains(fold(raw), "israel")

\* C10: no row that survives harmonize_ilo_with_dim, build_fact_policyeconomy
\* or create_etd_fact has iso3 "ISR", a resolved name that folds to contain
\* "israel", or a raw name that folds to contain "israel".
C10_CallerRecheck ==
  /\ pc = "harmonized" =>
       \A n \in 1..Len(staging) :
         ~RowExcluded(staging[n].iso3, staging[n].country_name,
                      ilo_df[staging[n].label + 1].country_name)
  /\ pc = "fact_built" =>
       \A n \in 1..Len(fact) :
         ~RowExcluded(fact[n].iso3, fact[n].country_name, fact[n].country_raw)

\* the folded keys of the lookup table
LookupKeys == {lookup[n].name_fold : n \in 1..Len(lookup)}
\* the key the call looked up: the folded name, or its alias
AskedKey == AliasKey(AliasesOf(script), name)
\* the key of keys with the largest (ratio, key)
BestScoring(word, keys) ==
  CHOOSE x \in keys : \A y \in keys \ {x} : ScoredLess(word, y, x)
\* the first row of the lookup table registered under key
FirstRowOf(key) == lookup[CHOOSE n \in 1..Len(lookup) :
                     /\ lookup[n].name_fold = key
                     /\ \A k \in 1..(n - 1) : lookup[k].name_fold # key]
\* what the claim expects of a call whose key is absent, best being the
\* best-scoring key
FuzzyExpected(word, best) ==
  IF 200 * RatioMatches(best, word) >= 88 * (Len(best) + Len(word))
  THEN <<FirstRowOf(best).iso3, FirstRowOf(best).country_name>>
  ELSE <<"", "">>

\* C11: when the key of a non-empty name is absent from the lookup table, the
\* call returns the identity registered under the best-scoring folded key if
\* that key's similarity ratio is at least 0.88 and ("", "") otherwise;
\* "Germny" resolves to Germany, "Chad" never to Chile, "Chile" never to Chad.
C11_FuzzyBoundary ==
  (Matched /\ name # "" /\ AskedKey \notin LookupKeys) =>
    /\ IF LookupKeys = {} THEN result = <<"", "">>
       ELSE result = FuzzyExpected(AskedKey, BestScoring(AskedKey, LookupKeys))
    /\ (name = "Germny" /\ "germany" \in LookupKeys) => result = <<"DEU", "Germany">>
    /\ name = "Chad" => result[2] # "Chile"
    /\ name = "Chile" => result[2] # "Chad"

\* a misspelt name at ratio 0.88 exactly is accepted by the fallback
C11_Witness ==
  /\ Matched
  /\ name = "Unitd Statez"
  /\ AskedKey \notin LookupKeys
  /\ step = "fuzzy"
  /\ result = <<"USA", "United States">>

\* C12: the steps apply in strict order and the first that matches returns:
\* an empty name returns ("", "") at the empty-input step; a key present in
\* the lookup table returns the identity registered under it at the exact
\* step; the fuzzy step returns only when the key is absent from the table.
C12_Precedence ==
  Matched =>
    /\ name = "" => (step = "empty" /\ result = <<"", "">>)
    /\ (name # "" /\ AskedKey \in LookupKeys) =>
         /\ step = "exact"
         /\ result = <<FirstRowOf(AskedKey).iso3, FirstRowOf(AskedKey).country_name>>
    /\ step \in {"fuzzy", "none"} => (name # "" /\ AskedKey \notin LookupKeys)

\* an exact hit in a table that holds other keys as well
C12_Witness ==
  /\ Matched
  /\ name # ""
  /\ step = "exact"
  /\ AskedKey \in LookupKeys
  /\ Cardinality(LookupKeys) > 1

\* C13: for every lookup table, the call on "" and on every value that
\* stands for a missing name (None, float NaN, pd.NA) returns ("", "") and
\* does not raise.
C13_EmptyInput ==
  (Matched /\ name \in MissingValues) =>
    (step # "raised" /\ result = <<"", "">>)

\* the reference dataset is missing or none of its rows is usable: no row
\* would enter the Registry
NoUsableRows == build_dim_pays_from_wiid(wiid) = <<>>

\* C14: when the reference dataset is missing or has no usable row, the
\* Registry build and the lookup build return empty tables and do not raise,
\* and every call of the resolver then returns ("", "") and does not raise.
C14_EmptyRegistry ==
  NoUsableRows =>
    /\ pc # "raised"
    /\ pc \in {"dim", "ready", "matched"} => dim_pays = <<>>
    /\ pc \in {"ready", "matched"} => lookup = <<>>
    /\ Matched => (step # "raised" /\ result = <<"", "">>)

\* C15: fold is idempotent: for every input, fold(fold(s)) = fold(s),
\* inputs whose compatibility decomposition yields upper-case letters or
\* punctuation included.
C15_FoldIdempotent ==
  pc = "refolded" => folded[2] = folded[1]

\* c is a lower-case letter or a digit
IsLowerOrDigit(c) == IsWord[c] /\ c # "_" /\ LowerOf[c] = c
\* t is made of lower-case letters, digits and single spaces only, and has
\* no leading or trailing space
OutputForm(t) ==
  /\ \A i \in 1..Len(t) : Ch(t, i) = " " \/ IsLowerOrDigit(Ch(t, i))
  /\ \A i \in 1..(Len(t) - 1) : ~(Ch(t, i) = " " /\ Ch(t, i + 1) = " ")
  /\ t # "" => (Ch(t, 1) # " " /\ Ch(t, Len(t)) # " ")

\* C16: for every input, the result of fold is made only of lower-case
\* letters, digits and single spaces with no leading or trailing space, every
\* other character (apostrophe, hyphen, comma, underscore, ...) having become
\* a space; "Côte d'Ivoire" and "Cote-d-Ivoire" both fold to "cote d ivoire".
C16_FoldOutputForm ==
  pc \in {"folded", "refolded"} =>
    /\ OutputForm(folded[1])
    /\ name \in {"Côte d'Ivoire", "Cote-d-Ivoire"} => folded[1] = "cote d ivoire"

\* C17: for every reference dataset, no row of the Registry has a missing
\* iso3 and no two rows of the Registry have the same iso3.
C17_RegistryUniqueness ==
  HasRegistry =>
    /\ \A n \in 1..Len(dim_pays) : notna(dim_pays[n].iso3)
    /\ \A n1, n2 \in 1..Len(dim_pays) :
         dim_pays[n1].iso3 = dim_pays[n2].iso3 => n1 = n2

\* a Registry built from a dataset that names one code twice
C17_Witness ==
  /\ HasRegistry
  /\ dim_pays # <<>>
  /\ \E n1, n2 \in 1..Len(wiid) :
       /\ wiid[n1].c3 = wiid[n2].c3
       /\ wiid[n1].country # wiid[n2].country
       /\ \E n \in 1..Len(dim_pays) : dim_pays[n].iso3 = wiid[n1].c3

\* the lookup table as built from the Registry dim
BuiltFrom(dim) ==
  IF script = "Normalizer" THEN build_country_lookup(dim)
  ELSE build_country_lookup_regionagg(dim)
\* the tables are those built from the reference dataset, and every logged
\* call returned what it returns on the table as built
AsBuilt(dim, built) ==
  /\ dim_pays = dim
  /\ lookup = built
  /\ \A n \in 1..Len(calls) :
       calls[n].result = smart_match_country(AliasesOf(script), calls[n].name, built)
AsBuiltFrom(dim) == AsBuilt(dim, BuiltFrom(dim))

\* C18: a call of smart_match_country leaves the lookup table and the
\* Registry as they were built (same rows, same order), so each call of an
\* interleaving of the loaders returns what it returns as the first call.
C18_NoSideEffects ==
  pc = "called" => AsBuiltFrom(build_dim_pays_from_wiid(wiid))

\* the two loaders resolved the same name one after the other
C18_Witness ==
  /\ pc = "called"
  /\ Len(calls) = 2
  /\ calls[1].loader = "ilo"
  /\ calls[2].loader = "etd"
  /\ calls[1].name = calls[2].name
  /\ calls[1].result[1] # ""

\* the codes of a Registry, and its identities
Iso3Set(dim) == {dim[n].iso3 : n \in 1..Len(dim)}
IdentitySet(dim) == {<<dim[n].iso3, dim[n].country_name>> : n \in 1..Len(dim)}

\* C19: a second build of the Registry from the same dataset, as the first
\* build left it, returns the same set of codes and the same canonical names.
C19_IdempotentBuild ==
  [][RebuildDimPays =>
       /\ pc' = "rebuilt"
       /\ Iso3Set(dim_pays') = Iso3Set(dim_pays)
       /\ IdentitySet(dim_pays') = IdentitySet(dim_pays)]_vars

\* the Registry was built twice from a dataset to which the first build
\* added the "year" column
C19_Witness ==
  /\ pc = "rebuilt"
  /\ Len(dim_pays) = 2
  /\ \A n \in 1..Len(wiid) : wiid[n].year = NoYear

\* the raw names of the ILO file, and those the resolver leaves without iso3
RawIloNames == {ilo_df[n].country_name : n \in 1..Len(ilo_df)} \ {NaN}
UnresolvedIloNames ==
  {nm \in RawIloNames : smart_match_country(ALIASES, nm, lookup)[1] = ""}
\* the diagnostics list exactly the unresolved names, each once
ListsUnresolved ==
  /\ {unmatched[n].country_name : n \in 1..Len(unmatched)} = UnresolvedIloNames
  /\ \A n1, n2 \in 1..Len(unmatched) :
       unmatched[n1].country_name = unmatched[n2].country_name => n1 = n2
\* the canonical name registered first under the key nearest to word
NearestName(word) == FirstRowOf(BestScoring(word, LookupKeys)).country_name
\* the nearest key is at ratio cutoff / 100 at least of word
NearestReaches(word, best, cutoff) ==
  200 * RatioMatches(best, word) >= cutoff * (Len(best) + Len(word))

\* C20 as claimed: the diagnostics list every distinct raw ILO name the
\* resolver leaves without iso3, each paired with the nearest candidate of the
\* lookup table whatever its score: the suggestion is not empty whenever the
\* lookup table is not empty.
C20_NearestAlways ==
  pc = "diagnosed" =>
    /\ ListsUnresolved
    /\ \A n \in 1..Len(unmatched) :
         lookup # <<>> =>
           /\ unmatched[n].suggested_match # ""
           /\ unmatched[n].suggested_match = NearestName(fold(unmatched[n].country_name))

\* C20 as amended: the diagnostics list every distinct raw ILO name the
\* resolver leaves without iso3, each paired with the candidate nearest to its
\* folded form when that candidate's ratio is at least 0.75 (which can be
\* below 0.88), and with an empty suggestion otherwise.
C20_NearestAbove75 ==
  pc = "diagnosed" =>
    /\ ListsUnresolved
    /\ \A n \in 1..Len(unmatched) :
         unmatched[n].suggested_match =
           IF lookup # <<>>
              /\ NearestReaches(fold(unmatched[n].country_name),
                                BestScoring(fold(unmatched[n].country_name), LookupKeys), 75)
           THEN NearestName(fold(unmatched[n].country_name))
           ELSE ""

\* "Germony" is listed with "Germany", at 0.857, and "Atlantis" without a
\* suggestion although the lookup table is not empty
C20_Witness ==
  /\ pc = "diagnosed"
  /\ \E n \in 1..Len(unmatched) :
       unmatched[n] = [country_name |-> "Germony", suggested_match |-> "Germany"]
  /\ \E n \in 1..Len(unmatched) :
       unmatched[n] = [country_name |-> "Atlantis", suggested_match |-> ""]

(***************************************************************************)
(* Row cleaning: clean_row_values applied to one row.                      *)
(***************************************************************************)
\* the longest row
MaxCells == 2

\* the values of the rows of test_fix.py, and strings near the markers
CellPool ==
  {PyFloat("8.9"), PyFloat("0.0"), PyFloat("nan"), PyFloat("inf"), PyFloat("-inf"),
   PyInt("211"), PyInt("0"), NoneCell, NACell}
  \cup {PyStr(NULL_MARKERS[n]) : n \in 1..Len(NULL_MARKERS)}
  \cup {PyStr(" "), PyStr("   "), PyStr(" NA"), PyStr("NA "), PyStr("na"), PyStr("Null"),
        PyStr("None"), PyStr("inf"), PyStr("0"), PyStr("n/a"), PyStr("FR")}

InitClean ==
  /\ script = "test_fix"
  /\ pc = "row"
  /\ wiid = <<>>
  /\ dim_pays = <<>>
  /\ lookup = <<>>
  /\ name = ""
  /\ result = <<"", "">>
  /\ step = ""
  /\ ilo_df = <<>>
  /\ staging = <<>>
  /\ etd_long = <<>>
  /\ fact = <<>>
  /\ folded = <<>>
  /\ calls = <<>>
  /\ unmatched = <<>>
  /\ row \in SeqsOf(CellPool, 0, MaxCells)
  /\ cleaned = <<>>
  /\ dim_geography = <<>>
  /\ ilo_csv = <<>>
  /\ ilos = <<>>
  /\ task_state = <<>>
  /\ out_dir = <<>>
  /\ load = <<>>
  /\ mssql = <<>>
  /\ processed = <<>>

\* cleaned = clean_row_values(row)
CleanRowValues ==
  /\ pc = "row"
  /\ cleaned' = clean_row_values(row)
  /\ pc' = "cleaned"
  /\ UNCHANGED <<script, wiid, dim_pays, lookup, name, result, step, ilo_df, staging, etd_long, fact, folded, calls, unmatched, row, dim_geography, ilo_csv, ilos, task_state, out_dir, load, mssql, processed>>

NextClean == CleanRowValues

SpecClean == InitClean /\ [][NextClean]_vars

\* the values the cleaning is to replace: None/NaN, +inf, -inf, an empty or
\* whitespace-only string, one of the eight markers
MustBeNone(val) ==
  \/ val.kind \in {"NoneType", "NAType"}
  \/ val.kind = "float" /\ val.v \in {"nan", "inf", "-inf"}
  \/ val.kind = "str" /\ \A i \in 1..Len(val.v) : IsSpace[Ch(val.v, i)]
  \/ val.kind = "str"
     /\ val.v \in {"#N/A", "NULL", "null", "nan", "NaN", "N/A", "NA"}

WR(country, c3, year, region_wb) ==
  [country |-> country, c3 |-> c3, year |-> year, region_wb |-> region_wb]

LatestPool ==
  { WR("Viet Nam", "VNM", 2021, NaN),
    WR("Viet Nam", "VNM", 2020, "East Asia"),
    WR("Viet Nam", "VNM", 2019, "Asia"),
    WR("Russia", "RUS", 2020, "Europe"),
    WR("Russia", "RUS", 2019, NaN),
    WR("Chad", "TCD", 2020, NaN) }

InitLatest ==
  /\ script \in Scripts
  /\ wiid \in SeqsOf(LatestPool, 0, MaxRows)
  /\ InitCommon

NextLatest == BuildDimPays

SpecLatest == InitLatest /\ [][NextLatest]_vars

\* the rows of the (name, ISO3) group of the Registry row d
GroupRows(d) ==
  {n \in 1..Len(wiid) : wiid[n].country = d.country_name /\ wiid[n].c3 = d.iso3}

\* the row of the group with the latest year
LatestRow(d) ==
  CHOOSE n \in GroupRows(d) : \A k \in GroupRows(d) : wiid[k].year <= wiid[n].year

\* C22: every attribute of a Registry row is the attribute of the latest-year
\* row of its (name, ISO3) group, also when that row lacks the attribute
C22_LatestRowAttributes ==
  pc = "dim" =>
    \A i \in 1..Len(dim_pays) :
      dim_pays[i].region_wb = wiid[LatestRow(dim_pays[i])].region_wb

\* C23: every value t of the ALIASES table of the script is in folded form,
\* fold(t) = t, so that it can equal a folded canonical name of the lookup
\* table
C23_AliasTargetsFolded ==
  \A n \in 1..Len(AliasesOf(script)) :
    fold(AliasesOf(script)[n][2]) = AliasesOf(script)[n][2]

\* C24: a non-empty iso3 that smart_match_country returns comes, with the
\* returned canonical name, from one row of the Registry the lookup table was
\* built from; the returned iso3 is empty exactly when the returned name is
C24_RegisteredIdentity ==
  Matched =>
    /\ result[1] # "" =>
         \E r \in Identities : result = <<r.iso3, r.country_name>>
    /\ result[1] = "" <=> result[2] = ""

\* a name the Registry lacks was resolved by the fuzzy step to a row of it
C24_Witness ==
  /\ Matched
  /\ step = "fuzzy"
  /\ name = "State of Israel"
  /\ result = <<"ISL", "State of Isreal">>
  /\ \E r \in Identities : r.iso3 = "ISL" /\ r.country_name = "State of Isreal"

\* C25: create_etd_fact and build_fact_policyeconomy return no row whose
\* country name the resolver left unresolved: no output row has an empty iso3
C25_UnmatchedDropped ==
  pc = "fact_built" => \A n \in 1..Len(fact) : fact[n].iso3 # ""

\* C26: every row build_fact_policyeconomy returns for a frame of
\* normalize_etd_to_long carries the iso3 and country_name that
\* smart_match_country gives for the country_raw of that same row
C26_OwnRowIdentity ==
  (pc = "fact_built" /\ script = "Normalizer") =>
    \A n \in 1..Len(fact) :
      /\ fact[n].iso3 = smart_match_country(ALIASES, fact[n].country_raw, lookup)[1]
      /\ fact[n].country_name =
           CanonOrRaw(smart_match_country(ALIASES, fact[n].country_raw, lookup)[2],
                      fact[n].country_raw)

(***************************************************************************)
(* src/dw_etl: run_all.main up to the ILOSTAT loader.                      *)
(***************************************************************************)
\* the rows build_dim_geography can return from the WIID file, sorted by
\* country_name
GeographyRows ==
  << [country_name |-> "Congo", iso3 |-> "COG"],
     [country_name |-> "Congo, Democratic Republic of the", iso3 |-> "COD"],
     [country_name |-> "France", iso3 |-> "FRA"],
     [country_name |-> "Gambia", iso3 |-> "GMB"] >>

\* the rows of an ILOSTAT file: ref_area.label, time, obs_value
IlostatRows ==
  { [country_name |-> c, year |-> 2020, value |-> v] :
      c \in {"Congo, Dem. Rep.", "Gambia, The", "France", "Congo"},
      v \in {NoValue, 1} }

InitIlostat ==
  /\ script = "run_all"
  /\ pc = "geography"
  /\ wiid = <<>>
  /\ dim_pays = <<>>
  /\ lookup = <<>>
  /\ name = ""
  /\ result = <<"", "">>
  /\ step = ""
  /\ ilo_df = <<>>
  /\ staging = <<>>
  /\ etd_long = <<>>
  /\ fact = <<>>
  /\ folded = <<>>
  /\ calls = <<>>
  /\ unmatched = <<>>
  /\ row = <<>>
  /\ cleaned = <<>>
  /\ \E keep \in (SUBSET (1..Len(GeographyRows))) \ {{}} :
       dim_geography = SeqFilter(GeographyRows, LAMBDA d : \E n \in keep : GeographyRows[n] = d, 1)
  /\ ilo_csv \in SeqsOf(IlostatRows, 1, MaxFactRows)
  /\ ilos = <<>>
  /\ task_state = <<>>
  /\ out_dir = <<>>
  /\ load = <<>>
  /\ mssql = <<>>
  /\ processed = <<>>

\* ilos[file_key] = load_ilostat_quick(fname, measure_name, dim_geography)
LoadIlostatQuick ==
  /\ pc = "geography"
  /\ ilos' = load_ilostat_quick(ilo_csv, dim_geography)
  /\ pc' = "ilostat"
  /\ UNCHANGED <<script, wiid, dim_pays, lookup, name, result, step, ilo_df, staging, etd_long, fact, folded, calls, unmatched, row, cleaned, dim_geography, ilo_csv, task_state, out_dir, load, mssql, processed>>

NextIlostat == LoadIlostatQuick

SpecIlostat == InitIlostat /\ [][NextIlostat]_vars

\* the codes of ISO_ALIASES
AliasCodes == {ISO_ALIASES[n][2] : n \in 1..Len(ISO_ALIASES)}

\* C27: the rows load_ilostat_quick returns for a raw country name that is a
\* key of ISO_ALIASES carry the aliased code in their iso3 column
C27_IsoAliasesFix ==
  pc = "ilostat" =>
    /\ \A n \in 1..Len(ilos) :
         ilos[n].country_name \in AliasCodes => ilos[n].iso3 = ilos[n].country_name
    /\ \A k \in 1..Len(ilo_csv) :
         (ilo_csv[k].value # NoValue
          /\ \E a \in 1..Len(ISO_ALIASES) : ISO_ALIASES[a][1] = ilo_csv[k].country_name)
         => \E n \in 1..Len(ilos) :
              ilos[n].iso3 = AliasGet(ISO_ALIASES, ilo_csv[k].country_name, "")

(***************************************************************************)
(* The Airflow DAG gweilpdw_etl_pipeline and its task write_data_to_mssql. *)
(* The database keeps, for every table, whether its constraints are        *)
(* checked in the open transaction (`checked`) and as last committed       *)
(* (`committed`): pyodbc connections do not autocommit, ALTER TABLE is     *)
(* transactional, and a statement that fails leaves the transaction open.  *)
(***************************************************************************)
\* the most 5000-row chunks of a CSV file, and the most rows (in chunks) of a
\* table before the run
MaxChunks == 1

\* csv_mappings, lines 282-295 (two of the seven dimensions, one of the three
\* facts)
csv_mappings ==
  << [table |-> "Dim_Time", schema |-> "dim"],
     [table |-> "Dim_Geography", schema |-> "dim"],
     [table |-> "Fact_Economy", schema |-> "fact"] >>

\* lines 299-300
dimension_mappings == SeqFilter(csv_mappings, LAMBDA m : m.schema = "dim", 1)
fact_mappings == SeqFilter(csv_mappings, LAMBDA m : m.schema = "fact", 1)

\* the fact tables visited before the dimension tables
LoadOrder_facts_first == fact_mappings \o dimension_mappings

\* the order in which the two loops of lines 303 and 511 visit the tables
LoadOrder == dimension_mappings \o fact_mappings

Tables == {csv_mappings[n].table : n \in 1..Len(csv_mappings)}
DimTables == {dimension_mappings[n].table : n \in 1..Len(dimension_mappings)}
FactTables == {fact_mappings[n].table : n \in 1..Len(fact_mappings)}

\* line 722: start_task >> run_etl_task >> run_profiling_task >>
\* write_to_mssql_task >> end_task
DagChain ==
  << "start_etl_process", "run_dw_etl", "run_data_profiling",
     "write_data_to_mssql", "finish_etl_process" >>
Tasks == {DagChain[n] : n \in 1..Len(DagChain)}
\* the tasks directly upstream of the n-th task of the chain
Upstream(n) == IF n = 1 THEN {} ELSE {DagChain[n - 1]}

\* default_args: 'retries': 1
RETRIES == 1

\* cnxn.commit(): what the transaction did to the constraints becomes durable
Commit(d) == [d EXCEPT !.committed = d.checked]
\* the connection is dropped with an open transaction: it is rolled back
Rollback(d) == [d EXCEPT !.checked = d.committed]

\* a task instance that failed: retried while it has tries left
AfterFailure(ts) ==
  IF ts.tries <= RETRIES THEN [ts EXCEPT !.state = "up_for_retry"]
  ELSE [ts EXCEPT !.state = "failed"]

InitDag ==
  /\ script = "gweilpdw_etl_dag"
  /\ pc = "dag"
  /\ wiid = <<>>
  /\ dim_pays = <<>>
  /\ lookup = <<>>
  /\ name = ""
  /\ result = <<"", "">>
  /\ step = ""
  /\ ilo_df = <<>>
  /\ staging = <<>>
  /\ etd_long = <<>>
  /\ fact = <<>>
  /\ folded = <<>>
  /\ calls = <<>>
  /\ unmatched = <<>>
  /\ row = <<>>
  /\ cleaned = <<>>
  /\ dim_geography = <<>>
  /\ ilo_csv = <<>>
  /\ ilos = <<>>
  /\ task_state = [t \in Tasks |-> [state |-> "none", tries |-> 0]]
  /\ out_dir = [files |-> {}, chunks |-> [t \in Tables |-> 0]]
  /\ load = [i |-> 1, at |-> "idle", chunk |-> 0]
  /\ \E exists \in SUBSET Tables :
       \E rows \in [Tables -> 0..MaxChunks] :
         /\ \A t \in Tables \ exists : rows[t] = 0
         /\ mssql = [exists |-> exists, rows |-> rows,
                     checked |-> [t \in Tables |-> TRUE],
                     committed |-> [t \in Tables |-> TRUE]]
  /\ processed = [t \in Tables |-> "untouched"]

\* the scheduler starts a task whose upstream tasks all succeeded
\* (trigger rule all_success); write_data_to_mssql connects and commits the
\* two schemas (lines 246-273)
StartTask ==
  /\ \E n \in 1..Len(DagChain) :
       /\ task_state[DagChain[n]].state \in {"none", "up_for_retry"}
       /\ \A u \in Upstream(n) : task_state[u].state = "success"
       /\ task_state' = [task_state EXCEPT ![DagChain[n]] =
                           [state |-> "running", tries |-> @.tries + 1]]
       /\ IF DagChain[n] = "write_data_to_mssql"
          THEN /\ load' = [i |-> 1, at |-> "begin", chunk |-> 0]
               /\ processed' = [t \in Tables |-> "untouched"]
               /\ mssql' = Commit(mssql)
          ELSE UNCHANGED <<load, processed, mssql>>
  /\ UNCHANGED <<script, pc, wiid, dim_pays, lookup, name, result, step, ilo_df, staging, etd_long, fact, folded, calls, unmatched, row, cleaned, dim_geography, ilo_csv, ilos, out_dir>>

\* a task other than write_data_to_mssql returns; run_dw_etl (run_all.py
\* returned 0) leaves its CSV files in the output directory
TaskSucceeds ==
  /\ \E t \in Tasks \ {"write_data_to_mssql"} :
       /\ task_state[t].state = "running"
       /\ task_state' = [task_state EXCEPT ![t].state = "success"]
       /\ IF t = "run_dw_etl"
          THEN \E files \in SUBSET Tables :
                 \E chunks \in [Tables -> 0..MaxChunks] :
                   /\ \A f \in Tables \ files : chunks[f] = 0
                   /\ out_dir' = [files |-> files, chunks |-> chunks]
          ELSE out_dir' = out_dir
  /\ UNCHANGED <<script, pc, wiid, dim_pays, lookup, name, result, step, ilo_df, staging, etd_long, fact, folded, calls, unmatched, row, cleaned, dim_geography, ilo_csv, ilos, load, mssql, processed>>

\* run_dw_etl: run_all.py returned a non-zero code, RuntimeError (line 54)
RunDwEtlFails ==
  /\ task_state["run_dw_etl"].state = "running"
  /\ task_state' = [task_state EXCEPT !["run_dw_etl"] = AfterFailure(@)]
  /\ UNCHANGED <<script, pc, wiid, dim_pays, lookup, name, result, step, ilo_df, staging, etd_long, fact, folded, calls, unmatched, row, cleaned, dim_geography, ilo_csv, ilos, out_dir, load, mssql, processed>>

Writing == task_state["write_data_to_mssql"].state = "running"
\* the table the loops are at
Current == LoadOrder[load.i].table
AtTable(at) == Writing /\ load.at = at /\ load.i <= Len(LoadOrder)
NextTable == [i |-> load.i + 1, at |-> "begin", chunk |-> 0]

\* lines 312 and 507-508: the CSV file of the table does not exist
SkipMissingCsv ==
  /\ AtTable("begin")
  /\ Current \notin out_dir.files
  /\ processed' = [processed EXCEPT ![Current] = "no_csv"]
  /\ load' = NextTable
  /\ UNCHANGED <<script, pc, wiid, dim_pays, lookup, name, result, step, ilo_df, staging, etd_long, fact, folded, calls, unmatched, row, cleaned, dim_geography, ilo_csv, ilos, task_state, out_dir, mssql>>

\* lines 350-389: the table does not exist; CREATE TABLE and commit
CreateTable ==
  /\ AtTable("begin")
  /\ Current \in out_dir.files
  /\ Current \notin mssql.exists
  /\ mssql' = Commit([mssql EXCEPT !.exists = @ \cup {Current}])
  /\ processed' = [processed EXCEPT ![Current] = "inserting"]
  /\ load' = [load EXCEPT !.at = "insert"]
  /\ UNCHANGED <<script, pc, wiid, dim_pays, lookup, name, result, step, ilo_df, staging, etd_long, fact, folded, calls, unmatched, row, cleaned, dim_geography, ilo_csv, ilos, task_state, out_dir>>

\* lines 396-400 and 602-606: an existing fact table; DELETE and commit
ClearFactTable ==
  /\ AtTable("begin")
  /\ Current \in out_dir.files
  /\ Current \in mssql.exists
  /\ Current \in FactTables
  /\ mssql' = Commit([mssql EXCEPT !.rows[Current] = 0])
  /\ processed' = [processed EXCEPT ![Current] = "inserting"]
  /\ load' = [load EXCEPT !.at = "insert"]
  /\ UNCHANGED <<script, pc, wiid, dim_pays, lookup, name, result, step, ilo_df, staging, etd_long, fact, folded, calls, unmatched, row, cleaned, dim_geography, ilo_csv, ilos, task_state, out_dir>>

\* lines 403-415: an existing dimension table; NOCHECK CONSTRAINT ALL,
\* DELETE, CHECK CONSTRAINT ALL and commit all succeed
ClearDimensionTable ==
  /\ AtTable("begin")
  /\ Current \in out_dir.files
  /\ Current \in mssql.exists
  /\ Current \in DimTables
  /\ mssql' = Commit([mssql EXCEPT !.rows[Current] = 0, !.checked[Current] = TRUE])
  /\ processed' = [processed EXCEPT ![Current] = "inserting"]
  /\ load' = [load EXCEPT !.at = "insert"]
  /\ UNCHANGED <<script, pc, wiid, dim_pays, lookup, name, result, step, ilo_df, staging, etd_long, fact, folded, calls, unmatched, row, cleaned, dim_geography, ilo_csv, ilos, task_state, out_dir>>

\* lines 403-424: the constraints of the dimension table are disabled and
\* the DELETE raises (rows of a fact table refer to rows of the table, which
\* NOCHECK on the table itself does not allow to delete; a lock timeout); the
\* handler counts the rows and skips the table when it has any
ClearDimensionFails ==
  /\ AtTable("begin")
  /\ Current \in out_dir.files
  /\ Current \in mssql.exists
  /\ Current \in DimTables
  /\ mssql' = [mssql EXCEPT !.checked[Current] = FALSE]
  /\ IF mssql.rows[Current] > 0
     THEN /\ processed' = [processed EXCEPT ![Current] = "skipped"]
          /\ load' = NextTable
     ELSE /\ processed' = [processed EXCEPT ![Current] = "inserting"]
          /\ load' = [load EXCEPT !.at = "insert"]
  /\ UNCHANGED <<script, pc, wiid, dim_pays, lookup, name, result, step, ilo_df, staging, etd_long, fact, folded, calls, unmatched, row, cleaned, dim_geography, ilo_csv, ilos, task_state, out_dir>>

\* lines 489-499 and 663-673: executemany of the next chunk and commit
InsertChunk ==
  /\ AtTable("insert")
  /\ load.chunk < out_dir.chunks[Current]
  /\ mssql' = Commit([mssql EXCEPT !.rows[Current] = @ + 1])
  /\ load' = [load EXCEPT !.chunk = @ + 1]
  /\ UNCHANGED <<script, pc, wiid, dim_pays, lookup, name, result, step, ilo_df, staging, etd_long, fact, folded, calls, unmatched, row, cleaned, dim_geography, ilo_csv, ilos, task_state, out_dir, processed>>

\* lines 500-505 and 674-679: executemany raises and the function with it;
\* the connection is dropped
InsertChunkFails ==
  /\ AtTable("insert")
  /\ load.chunk < out_dir.chunks[Current]
  /\ mssql' = Rollback(mssql)
  /\ load' = [load EXCEPT !.at = "raised"]
  /\ task_state' = [task_state EXCEPT !["write_data_to_mssql"] = AfterFailure(@)]
  /\ UNCHANGED <<script, pc, wiid, dim_pays, lookup, name, result, step, ilo_df, staging, etd_long, fact, folded, calls, unmatched, row, cleaned, dim_geography, ilo_csv, ilos, out_dir, processed>>

\* the chunk loop is over: the loop goes to the next table
FinishTable ==
  /\ AtTable("insert")
  /\ load.chunk = out_dir.chunks[Current]
  /\ processed' = [processed EXCEPT ![Current] = "loaded"]
  /\ load' = NextTable
  /\ UNCHANGED <<script, pc, wiid, dim_pays, lookup, name, result, step, ilo_df, staging, etd_long, fact, folded, calls, unmatched, row, cleaned, dim_geography, ilo_csv, ilos, task_state, out_dir, mssql>>

\* lines 684-687: both loops are over; cursor.close(), cnxn.close()
FinishWrite ==
  /\ Writing
  /\ load.i > Len(LoadOrder)
  /\ load.at = "begin"
  /\ mssql' = Rollback(mssql)
  /\ load' = [load EXCEPT !.at = "closed"]
  /\ task_state' = [task_state EXCEPT !["write_data_to_mssql"].state = "success"]
  /\ UNCHANGED <<script, pc, wiid, dim_pays, lookup, name, result, step, ilo_df, staging, etd_long, fact, folded, calls, unmatched, row, cleaned, dim_geography, ilo_csv, ilos, out_dir, processed>>

NextDag ==
  \/ StartTask
  \/ TaskSucceeds
  \/ RunDwEtlFails
  \/ SkipMissingCsv
  \/ CreateTable
  \/ ClearFactTable
  \/ ClearDimensionTable
  \/ ClearDimensionFails
  \/ InsertChunk
  \/ InsertChunkFails
  \/ FinishTable
  \/ FinishWrite

SpecDag == InitDag /\ [][NextDag]_vars

\* the function has issued SQL for the table in this run
Touched(t) == processed[t] \in {"inserting", "loaded", "skipped"}
\* the function has gone past the table in this run
Passed(t) == processed[t] \in {"loaded", "skipped", "no_csv"}

\* C28: every dimension table has been cleared and has all its chunks
\* inserted and committed before the first fact table is touched, and
\* write_data_to_mssql starts only after run_dw_etl has completed
C28_LoadOrdering ==
  /\ \A f \in FactTables :
       Touched(f) => \A d \in DimTables : processed[d] = "loaded"
  /\ task_state["write_data_to_mssql"].state # "none" =>
       task_state["run_dw_etl"].state = "success"

\* C28, amended: before the first fact table is touched the function has gone
\* past every dimension table, which it either loaded (all the chunks of its
\* CSV file are committed rows of the emptied table) or skipped (no CSV
\* file, or the table could not be cleared and holds rows);
\* write_data_to_mssql starts only after run_dw_etl has completed
C28_LoadOrderingOrSkipped ==
  /\ \A f \in FactTables : Touched(f) => \A d \in DimTables : Passed(d)
  /\ \A d \in DimTables :
       processed[d] = "loaded" => mssql.rows[d] = out_dir.chunks[d]
  /\ task_state["write_data_to_mssql"].state # "none" =>
       task_state["run_dw_etl"].state = "success"

\* the fact table is being filled after one dimension table was loaded and
\* the other skipped
C28_Witness ==
  /\ processed["Fact_Economy"] = "inserting"
  /\ processed["Dim_Time"] = "loaded"
  /\ mssql.rows["Dim_Time"] = MaxChunks
  /\ processed["Dim_Geography"] = "skipped"

\* C29: the constraints of a dimension table that the function disabled are
\* enabled again when it moves on to the next table, also when the DELETE
\* failed, and no commit makes disabled constraints durable
C29_ConstraintsReenabled ==
  /\ \A t \in Tables : Passed(t) => mssql.checked[t]
  /\ \A t \in Tables : mssql.committed[t]

\* the keys of the ALIASES table of the script
AliasKeys == {AliasesOf(script)[n][1] : n \in 1..Len(AliasesOf(script))}

\* C30: no value of the ALIASES table is a key of the table, and the key that
\* smart_match_country computes for a name is a fixed point of the alias
\* mapping: the alias step applied to it gives it back
C30_AliasSingleStep ==
  /\ \A n \in 1..Len(AliasesOf(script)) : AliasesOf(script)[n][2] \notin AliasKeys
  /\ Matched =>
       AliasGet(AliasesOf(script), AskedKey, AskedKey) = AskedKey

\* the alias step changed the key of the name that was resolved
C30_Witness ==
  /\ Matched
  /\ name = "Russian Federation"
  /\ fold(name) \in AliasKeys
  /\ AskedKey = "russia"

=============================================================================
